---- MODULE Spec2Model ----
(***************************************************************************)
(* JDK / build-tool discovery, reconciliation and configuration merge of   *)
(* the java-extension-pack-jdk extension.                                  *)
(*                                                                         *)
(* Strings that the code takes apart are sequences of tokens:              *)
(*   a path     <<"/","opt","/","jdk17","/","bin">>   ("/opt/jdk17/bin")   *)
(*   a version  1 . 8 . 0 _ 362 (numerals and symbols) ("1.8.0_362")        *)
(* so that path.join, String.startsWith, String.replace and the version    *)
(* comparison are computed on the text, as the code computes them.         *)
(* undefined is the empty sequence Undef.                                  *)
(***************************************************************************)
EXTENDS Integers, Sequences, FiniteSets, TLC

----------------------------------------------------------------------------
(* Bounds of the model *)

MaxEntries == 2
MaxRuns == 2

----------------------------------------------------------------------------
(* Values *)

Undef == <<>>
JNull == <<"null">>
Truthy(v) == v # Undef /\ v # JNull

----------------------------------------------------------------------------
(* path (node) on token sequences *)

SEP == "/"
Root == <<SEP>>

RECURSIVE LastSep(_, _)
LastSep(p, i) == IF i = 0 THEN 0 ELSE IF p[i] = SEP THEN i ELSE LastSep(p, i - 1)

\* path.join(d, '..')
Parent(p) ==
    LET k == LastSep(p, Len(p))
    IN  IF k <= 1 THEN Root ELSE SubSeq(p, 1, k - 1)

\* path.join(d, name)
Join(p, name) == IF p = Root THEN <<SEP, name>> ELSE p \o <<SEP, name>>

\* String.prototype.startsWith
StartsWith(s, prefix) ==
    /\ Len(s) >= Len(prefix)
    /\ SubSeq(s, 1, Len(prefix)) = prefix

----------------------------------------------------------------------------
(* Version strings and their comparison (compare-versions, '>').           *)
(* A numeral is the token Num(n), any other piece of text is Sym(s).       *)

Num(n) == [n |-> n]
Sym(s) == [s |-> s]
IsNum(t) == DOMAIN t = {"n"}
Dot == Sym(".")
Underscore == Sym("_")

\* s.replace(/_/g, '.')
optimize(s) == [i \in 1..Len(s) |-> IF s[i] = Underscore THEN Dot ELSE s[i]]

\* compare-versions accepts 1 to 4 dotted numerals; anything else throws.
\* (Pre-release and build suffixes are not in the model's version strings.)
ValidVersion(v) ==
    /\ Len(v) \in {1, 3, 5, 7}
    /\ \A i \in 1..Len(v) : IF i % 2 = 1 THEN IsNum(v[i]) ELSE v[i] = Dot

\* the i-th numeral, a missing one counting as 0
Segment(v, i) == IF 2 * i - 1 <= Len(v) THEN v[2 * i - 1].n ELSE 0

RECURSIVE compareSegments(_, _, _)
compareSegments(a, b, i) ==
    IF i > 4 THEN 0
    ELSE IF Segment(a, i) > Segment(b, i) THEN 1
    ELSE IF Segment(a, i) < Segment(b, i) THEN -1
    ELSE compareSegments(a, b, i + 1)

isNewLeft(leftFullVer, rightFullVer) ==
    LET l == optimize(leftFullVer)
        r == optimize(rightFullVer)
    IN  IF ValidVersion(l) /\ ValidVersion(r)
        THEN compareSegments(l, r, 1) = 1
        ELSE FALSE          \* compare throws, the catch answers false

----------------------------------------------------------------------------
(* Runtime names *)

NaN == -1

nameOf(majorVersion) ==
    IF majorVersion <= 5 THEN "J2SE-1." \o ToString(majorVersion)
    ELSE IF majorVersion <= 8 THEN "JavaSE-1." \o ToString(majorVersion)
    ELSE "JavaSE-" \o ToString(majorVersion)

\* Number(runtimeName.replace(/^J(ava|2)SE-(1\.|)/, '')), on the names that
\* carry a major of the model; any other name gives NaN
versionOf(runtimeName) ==
    CASE runtimeName \in {"JavaSE-1.8", "J2SE-1.8", "JavaSE-8", "J2SE-8"} -> 8
      [] runtimeName \in {"JavaSE-1.11", "J2SE-1.11", "JavaSE-11", "J2SE-11"} -> 11
      [] runtimeName \in {"JavaSE-1.17", "J2SE-1.17", "JavaSE-17", "J2SE-17"} -> 17
      [] runtimeName \in {"JavaSE-1.21", "J2SE-1.21", "JavaSE-21", "J2SE-21"} -> 21
      [] runtimeName \in {"JavaSE-1.22", "J2SE-1.22", "JavaSE-22", "J2SE-22"} -> 22
      [] OTHER -> NaN

\* a.name.localeCompare(b.name) < 0, on the names the model uses:
\* "J2SE-.." before "JavaSE-..", "JavaSE-1.8" before "JavaSE-11",
\* then digit by digit
NameKey(name) ==
    LET v == versionOf(name)
        fam == IF name \in {"J2SE-1." \o ToString(v), "J2SE-" \o ToString(v)} THEN 0 ELSE 1
        dotted == name \in {"J2SE-1." \o ToString(v), "JavaSE-1." \o ToString(v)}
        digits == IF v >= 10 THEN <<v \div 10, v % 10>> ELSE <<v>>
    IN  IF dotted THEN <<fam, 1, -1>> \o digits ELSE <<fam>> \o digits

RECURSIVE SeqLess(_, _)
SeqLess(a, b) ==
    IF a = <<>> THEN b # <<>>
    ELSE IF b = <<>> THEN FALSE
    ELSE IF Head(a) # Head(b) THEN Head(a) < Head(b)
    ELSE SeqLess(Tail(a), Tail(b))

NameLess(a, b) == SeqLess(NameKey(a), NameKey(b))

\* stable insertion of entry e into a name-sorted list
RECURSIVE InsertByName(_, _)
InsertByName(sorted, e) ==
    IF sorted = <<>> THEN <<e>>
    ELSE IF NameLess(e.name, Head(sorted).name) THEN <<e>> \o sorted
    ELSE <<Head(sorted)>> \o InsertByName(Tail(sorted), e)

RECURSIVE SortFrom(_, _)
SortFrom(done, rest) ==
    IF rest = <<>> THEN done ELSE SortFrom(InsertByName(done, Head(rest)), Tail(rest))

\* runtimes.sort((a, b) => a.name.localeCompare(b.name))
SortByName(list) == SortFrom(<<>>, list)

----------------------------------------------------------------------------
(* The machine: directories, installed JDKs, extensions *)

Path(components) ==
    LET RECURSIVE build(_)
        build(cs) == IF cs = <<>> THEN <<>> ELSE <<SEP, Head(cs)>> \o build(Tail(cs))
    IN  IF components = <<>> THEN Root ELSE build(components)

\* context.globalStorageUri.fsPath
GlobalStoragePath == Path(<<"gs">>)

\* path.join(getGlobalStoragePath(), 'java', String(majorVer))
StorageJavaDir(majorVer) == Join(Join(GlobalStoragePath, "java"), ToString(majorVer))

Ver(a, b, c) == <<Num(a), Dot, Num(b), Dot, Num(c)>>

Jdk(homedir, major, java_version) ==
    [homedir |-> homedir, major |-> major, java_version |-> java_version]

\* JDK installations that may be present: what jdkutils.getRuntime finds at a
\* directory (hasJavac, version.major, version.java_version)
Jdk17a  == Jdk(Path(<<"opt", "jdk17">>), 17, Ver(17, 0, 1))
Jdk17b  == Jdk(Path(<<"opt", "jdk17n">>), 17, Ver(17, 0, 2))
Jdk17ea == Jdk(Path(<<"opt", "jdk17ea">>), 17, <<Num(17), Sym("-ea")>>)
Jdk21   == Jdk(Path(<<"opt", "jdk21.jdk", "Contents", "Home">>), 21, Ver(21, 0, 1))
Jdk17s  == Jdk(StorageJavaDir(17), 17, Ver(17, 0, 2))
Jdk22   == Jdk(Path(<<"opt", "jdk22">>), 22, Ver(22, 0, 1))

JdkCatalog == {Jdk17a, Jdk17b, Jdk17ea, Jdk21, Jdk17s}

\* the directories the scan strategies of findAll look into
ScanRoot == Path(<<"opt">>)

----------------------------------------------------------------------------
(* State *)

VARIABLES
    os,                 \* process.platform: "windows", "mac" or "linux"
    jdks,               \* the JDK installations on disk
    availableNames,     \* the runtime names redhat.java declares (<<>> if absent)
    extensions,         \* the installed extensions (ids)
    javaConfig,         \* the IJavaConfig of the run
    failing,            \* the scan strategies of findAll that throw on this machine
    cfg,                \* the user settings (key -> value)
    runtimes,           \* the runtime list in memory
    runtimesOld,        \* its clone taken before the scan
    found,              \* what findAll pushed
    detectedLatestMap,  \* scan's best-per-major map: sequence in insertion order
    writes,             \* the settings keys update()/remove() was called on, this run
    pending,            \* the writes update() has issued that have not settled yet
    deferred,           \* the writes the functions called without await get to
                        \* once their fixPath has resolved
    unhandled,          \* the keys whose function rejected with nobody awaiting it
    exes,               \* the build-tool executables on disk (bin/gradle, bin/mvn)
    onPath,             \* the build tools `which` finds on the system PATH
    partial,            \* the directories a failed extraction left files in
    markers,            \* the content of each version.txt ("" when there is none)
    remote,             \* the latest version each remote descriptor announces
    net,                \* what the network and the archive of each tool do
    deleted,            \* the JDK directories deleted since the previous run
    acq,                \* how the acquisition of each tool ended in this run
    notified,           \* the failures showErrorMessage reported: of the scan, of an acquisition
    needsReload,        \* javaConfig.needsReload
    call,               \* the call of a function on its own: arguments and outcome
    pc,                 \* the next phase of the run
    run                 \* the number of the run

vars == <<os, jdks, availableNames, extensions, javaConfig, failing, cfg, runtimes,
          runtimesOld, found, detectedLatestMap, writes, exes, onPath, partial,
          markers, remote, net, deleted, acq, notified, needsReload, pending, deferred,
          unhandled, call, pc, run>>

\* the step in which updateJavaRuntimes is called: it runs to its first await
Synthesizing == pc = "update" /\ pc' # "update"

\* no function has been called on its own
NoCall == [fn |-> "", left |-> <<>>, right |-> <<>>, majorVersion |-> 0,
           probe |-> "", outcome |-> "", text |-> <<>>, number |-> 0]

env == <<os, jdks, availableNames, extensions, javaConfig, failing>>
toolEnv == <<exes, onPath, partial, markers, remote, net>>

----------------------------------------------------------------------------
(* jdkExplorer: isValidHome, fixPath, findByPath *)

\* jdkutils.getRuntime(homeDir, {checkJavac: true})?.hasJavac
isValidHome(homeDir) ==
    /\ homeDir # Undef
    /\ \E j \in jdks : j.homedir = homeDir

\* the directories fixPath tries, in order
fixPathCandidates(homeDir) ==
    <<homeDir, Parent(homeDir), Parent(Parent(homeDir))>>
    \o (IF os = "mac"
        THEN <<Join(Join(homeDir, "Contents"), "Home"), Join(homeDir, "Home")>>
        ELSE <<>>)

RECURSIVE FirstValid(_)
FirstValid(dirs) ==
    IF dirs = <<>> THEN Undef
    ELSE IF isValidHome(Head(dirs)) THEN Head(dirs)
    ELSE FirstValid(Tail(dirs))

fixPath_Unbounded(homeDir) ==
    FirstValid(fixPathCandidates(homeDir) \o <<Parent(Parent(Parent(homeDir)))>>)

\* fixPath with the loop starting at the parent
fixPath_FromParent(homeDir) == FirstValid(Tail(fixPathCandidates(homeDir)))

fixPath(homeDir) == FirstValid(fixPathCandidates(homeDir))

\* createJdk(jdkutils.getRuntime(homeDir, {checkJavac: true, withVersion: true}))
findByPath(homeDir) == {j \in jdks : j.homedir = homeDir}

\* autoContext.isUserInstalled
isUserInstalled(checkDir) == ~StartsWith(checkDir, GlobalStoragePath)

----------------------------------------------------------------------------
(* Settings keys *)

CONFIG_KEY_RUNTIMES == "java.configuration.runtimes"
CONFIG_KEY_DEPRECATED_JAVA_HOME == "java.home"
CONFIG_KEY_TERMINAL_PROFILES == "terminal.integrated.profiles"
CONFIG_KEY_TERMINAL_ENV == "terminal.integrated.env"
CONFIG_KEY_MAVEN_CUSTOM_ENV == "maven.terminal.customEnv"
CONFIG_KEY_GRADLE_JAVA_HOME == "java.import.gradle.java.home"
CONFIG_KEY_JDT_LS_JAVA_HOME == "java.jdt.ls.java.home"
CONFIG_KEY_SPRING_LS_JAVA_HOME == "spring-boot.ls.java.home"
CONFIG_KEY_APEX_JAVA_HOME == "salesforcedx-vscode-apex.java.home"
CONFIG_KEY_RSP_JAVA_HOME == "rsp-ui.rsp.java.home"
CONFIG_KEY_PLANTUML_JAVA == "plantuml.java"
CONFIG_KEY_GRADLE_HOME == "java.import.gradle.home"
CONFIG_KEY_MAVEN_EXE_PATH == "maven.executable.path"

\* a call of config.update(section, value) on its way to the settings
Write(section, value) == [section |-> section, value |-> value]

\* what a handler works on: the settings it reads, the log of the keys
\* written, the writes it has issued and the writes it has put off
Store(c, w) == [cfg |-> c, writes |-> w, issued |-> <<>>, deferred |-> {}]

\* userSettings.update: config.update(section, value) is called and not
\* awaited, the settings read afterwards are the old ones; an empty array
\* removes
update(st, section, value) ==
    [st EXCEPT !.writes = Append(@, section),
               !.issued = Append(@, Write(section, value))]

\* the settings with a sequence of writes settled, in the order issued
RECURSIVE Apply(_, _)
Apply(c, ws) ==
    IF ws = <<>> THEN c
    ELSE Apply([c EXCEPT ![Head(ws).section] = Head(ws).value], Tail(ws))

\* update only when cond holds
updateIf(cond, st, section, value) ==
    IF cond THEN update(st, section, value) ELSE st

\* a function called without await has reached an await of its own: what it
\* does with the result (an update, or a rejection nobody handles) comes
\* after its caller has run to its end
later(st, section, value) ==
    [st EXCEPT !.deferred = @ \cup {Write(section, value)}]

laterIf(cond, st, section, value) ==
    IF cond THEN later(st, section, value) ELSE st

----------------------------------------------------------------------------
(* jdkExplorer.scan *)

Runtime(name, path, default) == [name |-> name, path |-> path, default |-> default]

Detected(majorVersion, fullVersion, homePath) ==
    [majorVersion |-> majorVersion, fullVersion |-> fullVersion, homePath |-> homePath]

SeqToSet(s) == {s[i] : i \in 1..Len(s)}

\* jdtExtension.getAvailableVersions
getAvailableVersions == [i \in 1..Len(availableNames) |-> versionOf(availableNames[i])]

\* the first loop without the test of the name
isSupportedName_Any(name) == TRUE

\* first loop of scan: drop unsupported names and unfixable paths, fix the rest
isSupportedName(name) ==
    ~(Len(availableNames) > 0 /\ name \notin SeqToSet(availableNames))

scanFixRuntimes_KeepInvalid(list) ==
    SelectSeq(list, LAMBDA r : isSupportedName(r.name))

scanFixRuntimes(list) ==
    LET kept == SelectSeq(list, LAMBDA r : isSupportedName(r.name) /\ fixPath(r.path) # Undef)
    IN  [i \in 1..Len(kept) |-> [kept[i] EXCEPT !.path = fixPath(kept[i].path)]]

\* index of the detection of a major in the map, 0 if none
MapIndex(map, majorVersion) ==
    LET hit == {i \in 1..Len(map) : map[i].majorVersion = majorVersion}
    IN  IF hit = {} THEN 0 ELSE CHOOSE i \in hit : TRUE

\* second loop: keep the newest detection of each available major
RECURSIVE scanLatest(_, _)
scanLatest(map, jdkList) ==
    IF jdkList = <<>> THEN map
    ELSE LET d == Head(jdkList)
             k == MapIndex(map, d.majorVersion)
         IN  IF d.majorVersion \notin SeqToSet(getAvailableVersions)
             THEN scanLatest(map, Tail(jdkList))
             ELSE IF k = 0
             THEN scanLatest(Append(map, d), Tail(jdkList))
             ELSE IF isNewLeft(d.fullVersion, map[k].fullVersion)
             THEN scanLatest([map EXCEPT ![k] = d], Tail(jdkList))
             ELSE scanLatest(map, Tail(jdkList))

\* detectedLatestMap.set: the value of a key of the map in its place, of a
\* new key at the end
MapSet(map, d) ==
    LET k == MapIndex(map, d.majorVersion)
    IN  IF k # 0 THEN [map EXCEPT ![k] = d] ELSE Append(map, d)

\* third loop without 'continue; // Prefer user-installed JDK'
scanAutoDownloaded_Always(map, vers) == vers

\* third loop over the versions left, up to its next 'await isValidHome':
\* the versions from the one it waits for on, none if it is through
RECURSIVE scanAutoDownloaded(_, _)
scanAutoDownloaded(map, vers) ==
    IF vers = <<>> THEN <<>>
    ELSE IF MapIndex(map, Head(vers)) # 0
         THEN scanAutoDownloaded(map, Tail(vers))
         ELSE vers

\* third loop, after 'await isValidHome(verDir)': the auto-downloaded JDK of
\* the version is set in the map
scanAutoDownloadedResumes(map, majorVer) ==
    LET verDir == StorageJavaDir(majorVer)
    IN  IF isValidHome(verDir) THEN MapSet(map, Detected(majorVer, <<>>, verDir))
        ELSE map

\* index of the first entry of a name, 0 if none (Array.find)
FindByName(list, name) ==
    LET hit == {i \in 1..Len(list) : list[i].name = name}
    IN  IF hit = {} THEN 0 ELSE CHOOSE i \in hit : \A k \in hit : i <= k

\* fourth loop over the detections left, up to its next 'await findByPath':
\* the list with the entries it added, and the detections from the one it
\* waits for on, none if it is through
RECURSIVE scanSetRuntimes(_, _)
scanSetRuntimes(list, map) ==
    IF map = <<>> THEN [runtimes |-> list, rest |-> <<>>]
    ELSE LET detectedJdk == Head(map)
             detectedName == nameOf(detectedJdk.majorVersion)
             k == FindByName(list, detectedName)
         IN  IF k # 0
             THEN IF isUserInstalled(list[k].path)
                  THEN [runtimes |-> list, rest |-> map]
                  ELSE scanSetRuntimes(list, Tail(map))
             ELSE scanSetRuntimes(
                      Append(list, Runtime(detectedName, detectedJdk.homePath, FALSE)),
                      Tail(map))

\* fourth loop, after 'await findByPath(configRuntime.path)': the entry of
\* the name gets the path of a detection that is newer
scanSetRuntimesResumes(list, detectedJdk) ==
    LET k == FindByName(list, nameOf(detectedJdk.majorVersion))
        configJdk == findByPath(list[k].path)
        newer == \E c \in configJdk : isNewLeft(detectedJdk.fullVersion, c.java_version)
    IN  IF newer THEN [list EXCEPT ![k].path = detectedJdk.homePath] ELSE list

\* what findAll can return: the JDKs of the scanned locations, in any order
RECURSIVE Orderings(_)
Orderings(S) ==
    IF S = {} THEN {<<>>}
    ELSE UNION {{<<x>> \o s : s \in Orderings(S \ {x})} : x \in S}

\* the scan strategies of findAll: jdk-utils, the Windows distributors, Scoop,
\* IntelliJ and Pleiades
ScanStrategies == {"jdk-utils", "Windows", "Scoop", "IntelliJ", "Pleiades"}

\* os.homedir()
HomeDir == Path(<<"home">>)

\* the directories the glob patterns of a findBy strategy match on this OS
strategyDirs(strategy) ==
    CASE strategy = "Windows" ->
            IF os = "windows"
            THEN {Path(<<"Program Files", d>>) : d \in {"BellSoft", "OpenJDK", "RedHat", "Semeru"}}
            ELSE {}
      [] strategy = "Scoop" ->
            IF os = "windows"
            THEN {Path(<<"home", "scoop", "apps", "temurin17-jdk">>)}
            ELSE {}
      [] strategy = "IntelliJ" ->
            IF os # "mac" THEN {Join(HomeDir, ".jdks")} ELSE {}
      [] strategy = "Pleiades" ->
            IF os = "windows" THEN {Path(<<"pleiades", "java">>)} ELSE {}
      [] OTHER -> {}

\* the JDKs a strategy comes across: jdkutils.findRuntimes, or the homes
\* <dir>/*/bin/javac of findBy (Scoop ignores **/current/**)
strategyHits(strategy) ==
    IF strategy = "jdk-utils"
    THEN {j \in jdks : StartsWith(j.homedir, ScanRoot)}
    ELSE {j \in jdks : /\ Parent(j.homedir) \in strategyDirs(strategy)
                       /\ ~(strategy = "Scoop" /\ j.homedir[Len(j.homedir)] = "current")}

\* what a strategy may have pushed when it settles: all its hits; if it
\* throws, nothing (findRuntimes rejects before the pushes) or the hits of
\* findBy that came before the one it threw at
strategyPushes(strategy) ==
    LET hits == strategyHits(strategy)
    IN  IF strategy \notin failing \/ hits = {} THEN {hits}
        ELSE IF strategy = "jdk-utils" THEN {{}}
        ELSE SUBSET hits \ {hits}

\* findAll with the strategies joined by a Promise.all: one rejection and
\* there is no result
findAll_Rejecting ==
    IF \E strategy \in failing : strategyHits(strategy) # {} THEN {}
    ELSE {[i \in 1..Len(s) |-> Detected(s[i].major, s[i].java_version, s[i].homedir)] :
             s \in Orderings(UNION {strategyHits(strategy) : strategy \in ScanStrategies})}

\* findAll: Promise.allSettled over the strategies, then the pushed JDKs
findAll ==
    LET pushed == {a \cup b \cup c \cup d \cup e :
                      a \in strategyPushes("jdk-utils"), b \in strategyPushes("Windows"),
                      c \in strategyPushes("Scoop"), d \in strategyPushes("IntelliJ"),
                      e \in strategyPushes("Pleiades")}
        seqs == UNION {Orderings(hits) : hits \in pushed}
    IN  {[i \in 1..Len(s) |-> Detected(s[i].major, s[i].java_version, s[i].homedir)] : s \in seqs}

\* the first loop with its update issued whatever it changed
scanImmediateUpdate_Always(list) ==
    [runtimes |-> scanFixRuntimes(list), issued |-> <<scanFixRuntimes(list)>>]

\* the first loop without its update
scanImmediateUpdate_Deferred(list) ==
    [runtimes |-> scanFixRuntimes(list), issued |-> <<>>]

\* the first loop and, if needImmediateUpdate, the value handed to update
scanImmediateUpdate(list) ==
    LET fixed == scanFixRuntimes(list)
        needImmediateUpdate == fixed # list
    IN  [runtimes |-> fixed,
         issued |-> IF needImmediateUpdate THEN <<fixed>> ELSE <<>>]

\* scan up to 'await findAll()'
ScanFirstLoop ==
    /\ pc = "scan"
    /\ LET list == cfg[CONFIG_KEY_RUNTIMES]
           r == scanImmediateUpdate(list)
       IN  /\ runtimesOld' = list
           /\ runtimes' = r.runtimes
           /\ pending' = pending \o [i \in 1..Len(r.issued) |->
                                         Write(CONFIG_KEY_RUNTIMES, r.issued[i])]
           /\ writes' = writes \o [i \in 1..Len(r.issued) |-> CONFIG_KEY_RUNTIMES]
    /\ pc' = "findAll"
    /\ UNCHANGED <<call, deferred, unhandled, env, toolEnv, cfg, found, detectedLatestMap, deleted, acq, notified,
                   needsReload, run>>

\* the promise of config.update settles: the value is in the user settings
UpdateSettles ==
    /\ pending # <<>>
    /\ cfg' = [cfg EXCEPT ![Head(pending).section] = Head(pending).value]
    /\ pending' = Tail(pending)
    /\ UNCHANGED <<call, deferred, unhandled, env, toolEnv, runtimes, runtimesOld, found, detectedLatestMap, writes,
                   deleted, acq, notified, needsReload, pc, run>>

\* where scan waits after findAll has returned: for isValidHome of the i-th
\* available version (line 69), for findByPath of the entry of the i-th
\* detection of the map (line 85)
AtIsValidHome == <<"isValidHome-1", "isValidHome-2", "isValidHome-3", "isValidHome-4">>
AtFindByPath == <<"findByPath-1", "findByPath-2", "findByPath-3", "findByPath-4">>

\* the position of a wait in its loop
PositionIn(waits) == CHOOSE i \in 1..Len(waits) : waits[i] = pc

\* every place scan waits at from 'await findAll()' on
Detecting == {"findAll"} \cup SeqToSet(AtIsValidHome) \cup SeqToSet(AtFindByPath)

\* scan from the k-th detection of the map on: to the next await of the
\* fourth loop, or to its end
scanSets(list, map, k) ==
    LET r == scanSetRuntimes(list, SubSeq(map, k, Len(map)))
    IN  [runtimes |-> r.runtimes,
         pc |-> IF r.rest = <<>> THEN "update"
                ELSE AtFindByPath[Len(map) - Len(r.rest) + 1]]

\* scan from the i-th available version on: to the next await of the third
\* loop, or into the fourth loop
scanDetects(list, map, i) ==
    LET vers == getAvailableVersions
        rest == scanAutoDownloaded(map, SubSeq(vers, i, Len(vers)))
    IN  IF rest # <<>>
        THEN [runtimes |-> list, pc |-> AtIsValidHome[Len(vers) - Len(rest) + 1]]
        ELSE scanSets(list, map, 1)

\* scan, 'await findAll()' returns: the second loop, and on to the next await
ScanDetection ==
    /\ pc = "findAll"
    /\ \E jdkList \in findAll :
         \E map \in {scanLatest(<<>>, jdkList)} :
           \E r \in {scanDetects(runtimes, map, 1)} :
             /\ found' = SeqToSet(jdkList)
             /\ detectedLatestMap' = map
             /\ runtimes' = r.runtimes
             /\ pc' = r.pc
    /\ UNCHANGED <<call, deferred, unhandled, pending, env, toolEnv, cfg, runtimesOld, writes, deleted, acq,
                   notified, needsReload, run>>

\* scan, 'await isValidHome(verDir)' returns: the version is set in the map
\* or not, and on to the next await
ScanAutoDownloaded ==
    /\ pc \in SeqToSet(AtIsValidHome)
    /\ \E i \in {PositionIn(AtIsValidHome)} :
         \E map \in {scanAutoDownloadedResumes(detectedLatestMap, getAvailableVersions[i])} :
           \E r \in {scanDetects(runtimes, map, i + 1)} :
             /\ detectedLatestMap' = map
             /\ runtimes' = r.runtimes
             /\ pc' = r.pc
    /\ UNCHANGED <<call, deferred, unhandled, pending, env, toolEnv, cfg, runtimesOld, found, writes, deleted,
                   acq, notified, needsReload, run>>

\* scan, 'await findByPath(configRuntime.path)' returns: the entry keeps its
\* path or gets the one of the detection, and on to the next await or the end
ScanSetRuntimes ==
    /\ pc \in SeqToSet(AtFindByPath)
    /\ \E k \in {PositionIn(AtFindByPath)} :
         \E list \in {scanSetRuntimesResumes(runtimes, detectedLatestMap[k])} :
           \E r \in {scanSets(list, detectedLatestMap, k + 1)} :
             /\ runtimes' = r.runtimes
             /\ pc' = r.pc
    /\ UNCHANGED <<call, deferred, unhandled, pending, env, toolEnv, cfg, runtimesOld, found,
                   detectedLatestMap, writes, deleted, acq, notified, needsReload, run>>

----------------------------------------------------------------------------
(* userSettings: get, the structured values *)

EXT_REDHAT == "redhat.java"
EXT_GRADLE == "vscjava.vscode-gradle"
EXT_SPRING == "vmware.vscode-spring-boot"
EXT_APEX == "salesforce.salesforcedx-vscode"
EXT_RSP == "redhat.vscode-rsp-ui"
EXT_PLANTUML == "jebbs.plantuml"

\* what the extensions' package.json declare as default (info.defaultValue):
\* redhat.java declares the deprecated java.home with default null
defaultValue(section) ==
    IF section = CONFIG_KEY_DEPRECATED_JAVA_HOME /\ EXT_REDHAT \in extensions
    THEN JNull ELSE Undef

\* get: info.globalValue ?? info.defaultValue
get(c, section) ==
    IF c[section] \notin {Undef, JNull} THEN c[section] ELSE defaultValue(section)

\* getDefinition: info.globalValue
getDefinition(c, section) == c[section]

\* remove(section) is update(section, undefined)
remove(st, section) == update(st, section, Undef)

Env(javaHome, pathVar, zdotdir, other) ==
    [JAVA_HOME |-> javaHome, PATH |-> pathVar, ZDOTDIR |-> zdotdir, EXTRA |-> other]
NoEnv == Env(Undef, Undef, Undef, Undef)

Profile(shell, args, overrideName, envBlock, icon) ==
    [path |-> shell, args |-> args, overrideName |-> overrideName,
     env |-> envBlock, icon |-> icon]
EmptyProfile == Profile("", <<>>, FALSE, NoEnv, "")
NoProfiles == [k \in {} |-> EmptyProfile]

\* system.getExtensionContext().asAbsolutePath('resources')
resourcesDir == Path(<<"ext", "resources">>)

\* [path.join(home, 'bin'), '${env:PATH}'].join(path.delimiter)
PathVar(home) == Join(home, "bin") \o <<";", "${env:PATH}">>

\* redhat.JavaRuntimeArray
findByVersion(list, version) ==
    LET hit == {i \in 1..Len(list) : versionOf(list[i].name) = version}
    IN  IF hit = {} \/ version = NaN THEN 0 ELSE CHOOSE i \in hit : \A k \in hit : i <= k

findDefault(list) ==
    LET hit == {i \in 1..Len(list) : list[i].default}
    IN  IF hit = {} THEN 0 ELSE CHOOSE i \in hit : \A k \in hit : i <= k

PathOf(list, i) == IF i = 0 THEN Undef ELSE list[i].path

\* what a call that threw gives: the TypeError of path.join(undefined, '..')
TypeError == <<"TypeError">>

\* fixPath on a value that may be undefined: isValidHome(undefined) answers
\* false and path.join(undefined, '..') throws
fixPathOpt(p) == IF p = Undef \/ p = JNull THEN TypeError ELSE fixPath(p)

\* a || b
Or(a, b) == IF Truthy(a) THEN a ELSE b

\* system.existsFile on the java executables of the installed JDKs
existsFile(p) == \E j \in jdks : p = Join(Join(j.homedir, "bin"), "java")

----------------------------------------------------------------------------
(* userSettings.updateJavaRuntimes, piece by piece *)

\* java.home
\* the removal issued whatever get returns
updDeprecatedJavaHome_Always(st) == remove(st, CONFIG_KEY_DEPRECATED_JAVA_HOME)

updDeprecatedJavaHome(st) ==
    IF get(st.cfg, CONFIG_KEY_DEPRECATED_JAVA_HOME) # JNull
    THEN remove(st, CONFIG_KEY_DEPRECATED_JAVA_HOME)
    ELSE st

\* Project Runtimes Default (Keep if set)
markDefault_First(list) ==
    IF list # <<>> /\ findDefault(list) = 0
    THEN [list EXCEPT ![1].default = TRUE]
    ELSE list

\* the latest LTS runtime marked whether or not the list has a default
markDefault_Always(list) ==
    LET latest == findByVersion(list, javaConfig.latestLtsVer)
    IN  IF latest # 0 THEN [list EXCEPT ![latest].default = TRUE] ELSE list

markDefault(list) ==
    LET latest == findByVersion(list, javaConfig.latestLtsVer)
    IN  IF latest # 0 /\ findDefault(list) = 0
        THEN [list EXCEPT ![latest].default = TRUE]
        ELSE list

updRuntimes(st, list, old) ==
    IF list # old
    THEN [list |-> SortByName(list), st |-> update(st, CONFIG_KEY_RUNTIMES, SortByName(list))]
    ELSE [list |-> list, st |-> st]

\* Terminal Profiles Dropdown
cleanProfiles(profiles, list) ==
    LET keep == {k \in DOMAIN profiles :
                   ~(/\ FindByName(list, k) = 0
                     /\ Truthy(profiles[k].env.JAVA_HOME)
                     /\ ~isValidHome(profiles[k].env.JAVA_HOME))}
    IN  [k \in keep |-> profiles[k]]

\* the profile of a runtime built without the previous definition
runtimeProfile_Fresh(profilesOld, runtime) ==
    IF os = "windows"
    THEN [EmptyProfile EXCEPT !.overrideName = TRUE,
                              !.path = "cmd",
                              !.env = Env(runtime.path, PathVar(runtime.path), Undef, Undef)]
    ELSE IF os = "mac"
    THEN [EmptyProfile EXCEPT !.overrideName = TRUE,
                              !.path = "zsh",
                              !.env = Env(runtime.path, Undef, resourcesDir, Undef)]
    ELSE [EmptyProfile EXCEPT !.overrideName = TRUE,
                              !.path = "bash",
                              !.args = <<"--rcfile", Join(resourcesDir, ".bashrc")>>,
                              !.env = Env(runtime.path, Undef, Undef, Undef)]

runtimeProfile(profilesOld, runtime) ==
    LET prev == IF runtime.name \in DOMAIN profilesOld
                THEN profilesOld[runtime.name] ELSE EmptyProfile
    IN  IF os = "windows"
        THEN [prev EXCEPT !.overrideName = TRUE,
                          !.path = IF prev.path = "" THEN "cmd" ELSE prev.path,
                          !.env = Env(runtime.path, PathVar(runtime.path), Undef, Undef)]
        ELSE IF os = "mac"
        THEN [prev EXCEPT !.overrideName = TRUE,
                          !.path = "zsh",
                          !.env = Env(runtime.path, Undef, resourcesDir, Undef)]
        ELSE [prev EXCEPT !.overrideName = TRUE,
                          !.path = "bash",
                          !.args = <<"--rcfile", Join(resourcesDir, ".bashrc")>>,
                          !.env = Env(runtime.path, Undef, Undef, Undef)]

RECURSIVE setProfiles(_, _, _)
setProfiles(profilesNew, profilesOld, list) ==
    IF list = <<>> THEN profilesNew
    ELSE LET r == Head(list)
             p == runtimeProfile(profilesOld, r)
         IN  setProfiles(
                 [k \in DOMAIN profilesNew \cup {r.name} |->
                     IF k = r.name THEN p ELSE profilesNew[k]],
                 profilesOld, Tail(list))

updProfiles(st, list) ==
    LET profilesOld == getDefinition(st.cfg, CONFIG_KEY_TERMINAL_PROFILES)
        sortedNew == setProfiles(cleanProfiles(profilesOld, list), profilesOld, list)
    IN  updateIf(sortedNew # profilesOld, st, CONFIG_KEY_TERMINAL_PROFILES, sortedNew)

\* the Terminal Default Env Variables block calls fixPath on a JAVA_HOME that
\* is not set, and updateJavaRuntimes rejects there
terminalEnvThrows(st, list) ==
    LET stable == findByVersion(list, javaConfig.stableLtsVer)
        latest == findByVersion(list, javaConfig.latestLtsVer)
        terminalDefaultRuntime == IF latest # 0 THEN latest ELSE stable
    IN  /\ terminalDefaultRuntime # 0
        /\ os = "windows"
        /\ fixPathOpt(st.cfg[CONFIG_KEY_TERMINAL_ENV].JAVA_HOME) = TypeError

\* the block built from the managed variables alone
updTerminalEnv_Fresh(st, list) ==
    LET stable == findByVersion(list, javaConfig.stableLtsVer)
        latest == findByVersion(list, javaConfig.latestLtsVer)
        terminalDefaultRuntime == IF latest # 0 THEN latest ELSE stable
        terminalEnvOld == st.cfg[CONFIG_KEY_TERMINAL_ENV]
        fixedOrDefault == Or(fixPathOpt(terminalEnvOld.JAVA_HOME),
                             PathOf(list, terminalDefaultRuntime))
        terminalEnv == Env(fixedOrDefault, PathVar(fixedOrDefault), Undef, Undef)
    IN  IF terminalDefaultRuntime # 0 /\ os = "windows" /\ ~terminalEnvThrows(st, list)
        THEN updateIf(terminalEnv # terminalEnvOld, st, CONFIG_KEY_TERMINAL_ENV, terminalEnv)
        ELSE st

\* Terminal Default Env Variables (Keep if set), Windows only
updTerminalEnv(st, list) ==
    LET stable == findByVersion(list, javaConfig.stableLtsVer)
        latest == findByVersion(list, javaConfig.latestLtsVer)
        terminalDefaultRuntime == IF latest # 0 THEN latest ELSE stable
        terminalEnvOld == st.cfg[CONFIG_KEY_TERMINAL_ENV]
        fixedOrDefault == Or(fixPathOpt(terminalEnvOld.JAVA_HOME),
                             PathOf(list, terminalDefaultRuntime))
        terminalEnv == [terminalEnvOld EXCEPT !.PATH = PathVar(fixedOrDefault),
                                              !.JAVA_HOME = fixedOrDefault]
    IN  IF terminalDefaultRuntime # 0 /\ os = "windows" /\ ~terminalEnvThrows(st, list)
        THEN updateIf(terminalEnv # terminalEnvOld, st, CONFIG_KEY_TERMINAL_ENV, terminalEnv)
        ELSE st

\* Maven Terminal Custom Env (Keep if set)
EnvVar(name, value) == [environmentVariable |-> name, value |-> value]

FindEnvVar(customEnv, name) ==
    LET hit == {i \in 1..Len(customEnv) : customEnv[i].environmentVariable = name}
    IN  IF hit = {} THEN 0 ELSE CHOOSE i \in hit : \A k \in hit : i <= k

RemoveAt(seq, i) == SubSeq(seq, 1, i - 1) \o SubSeq(seq, i + 1, Len(seq))

updMavenCustomEnv(st, list) ==
    LET stable == findByVersion(list, javaConfig.stableLtsVer)
        latest == findByVersion(list, javaConfig.latestLtsVer)
        mavenJavaRuntime == IF latest # 0 THEN latest ELSE stable
        customEnvOld == st.cfg[CONFIG_KEY_MAVEN_CUSTOM_ENV]
        k == FindEnvVar(customEnvOld, "JAVA_HOME")
        originPath == IF k = 0 THEN Undef ELSE customEnvOld[k].value
        fixedOrDefault == Or(fixPathOpt(originPath), PathOf(list, mavenJavaRuntime))
        withHome == IF Truthy(originPath)
                    THEN [customEnvOld EXCEPT ![k].value = fixedOrDefault]
                    ELSE Append(customEnvOld, EnvVar("JAVA_HOME", PathOf(list, mavenJavaRuntime)))
        customEnv == IF os = "mac" /\ FindEnvVar(withHome, "ZDOTDIR") = 0
                     THEN Append(withHome, EnvVar("ZDOTDIR", resourcesDir))
                     ELSE withHome
    IN  IF os = "windows"
        THEN IF Truthy(originPath) /\ ~isValidHome(originPath)
             THEN update(st, CONFIG_KEY_MAVEN_CUSTOM_ENV, RemoveAt(customEnvOld, k))
             ELSE st
        ELSE IF mavenJavaRuntime # 0
        THEN updateIf(customEnv # customEnvOld, st, CONFIG_KEY_MAVEN_CUSTOM_ENV, customEnv)
        ELSE st

\* Gradle Daemon Java Home (Keep if set)
updGradleJavaHome(st, list) ==
    LET stable == findByVersion(list, javaConfig.stableLtsVer)
        latest == findByVersion(list, javaConfig.latestLtsVer)
        gradleJavaRuntime == IF latest # 0 THEN latest ELSE stable
        originPath == get(st.cfg, CONFIG_KEY_GRADLE_JAVA_HOME)
        fixedOrDefault == Or(fixPathOpt(originPath), PathOf(list, gradleJavaRuntime))
    IN  IF gradleJavaRuntime # 0 /\ EXT_GRADLE \in extensions
        THEN IF Truthy(originPath)
             THEN updateIf(fixedOrDefault # originPath, st,
                           CONFIG_KEY_GRADLE_JAVA_HOME, fixedOrDefault)
             ELSE update(st, CONFIG_KEY_GRADLE_JAVA_HOME, PathOf(list, gradleJavaRuntime))
        ELSE st

\* VS Code LS Java Home (Remove if embedded JRE exists).  The function is
\* called without await.  With a stable LTS runtime it runs to its end at
\* the call; without one it awaits fixPath(originPath), and its update, or
\* the TypeError of fixPath(undefined), comes later
updLsJavaHome(st, list, extensionId, configKey) ==
    LET stable == findByVersion(list, javaConfig.stableLtsVer)
        originPath == get(st.cfg, configKey)
        fixed == fixPathOpt(originPath)
    IN  IF extensionId \notin extensions THEN st
        ELSE IF javaConfig.embeddedJreVer # 0
        THEN IF Truthy(originPath) THEN remove(st, configKey) ELSE st
        ELSE IF stable # 0
        THEN updateIf(PathOf(list, stable) # originPath, st, configKey,
                      PathOf(list, stable))
        ELSE laterIf(fixed = TypeError \/ (Truthy(fixed) /\ fixed # originPath),
                     st, configKey, fixed)

\* Optional Extensions LS Java Home (Keep if set).  Called without await:
\* for a user-installed originPath it awaits fixPath, and its update comes
\* later
updOptionJavaHome(st, list, extensionId, configKey, optionalRuntime) ==
    LET originPath == get(st.cfg, configKey)
        fixedOrDefault == Or(fixPathOpt(originPath), PathOf(list, optionalRuntime))
    IN  IF optionalRuntime = 0 \/ extensionId \notin extensions THEN st
        ELSE IF Truthy(originPath)
        THEN IF isUserInstalled(originPath)
             THEN laterIf(fixedOrDefault # originPath, st, configKey, fixedOrDefault)
             ELSE updateIf(PathOf(list, optionalRuntime) # originPath, st, configKey,
                           PathOf(list, optionalRuntime))
        ELSE update(st, configKey, PathOf(list, optionalRuntime))

\* Optional Extensions java executable path (Keep if set)
updPlantUml(st, list) ==
    LET stable == findByVersion(list, javaConfig.stableLtsVer)
        originPath == get(st.cfg, CONFIG_KEY_PLANTUML_JAVA)
    IN  IF stable # 0 /\ EXT_PLANTUML \in extensions
        THEN updateIf(~Truthy(originPath) \/ ~existsFile(originPath), st,
                      CONFIG_KEY_PLANTUML_JAVA, Join(Join(list[stable].path, "bin"), "java"))
        ELSE st

\* updateJavaRuntimes runs from its call, or from the await it was suspended
\* at, up to the next await it reaches or to its end: the list in memory, the
\* writes issued and put off, where it is then, and whether the Gradle block
\* has set javaConfig.needsReload.  Each block reads its key when it runs in
\* the model; the source reads it before the await of the block, and no write
\* of that key is in flight then.
SynthResult(list, st, at, reload) ==
    [runtimes |-> list, st |-> st, pc |-> at, needsReload |-> reload]

\* where updateJavaRuntimes is: at its call, or suspended at the await of
\* the Clean loop, of the terminal block, of the Maven block, of the Gradle
\* block
SynthPcs == {"update", "update-97", "update-135", "update-156", "update-203"}

\* the Gradle block from its await on, and the calls after it, none of them
\* awaited
synthGradleResumes(st, l) ==
    LET s6  == CHOOSE n \in {updGradleJavaHome(s, l) : s \in {st}} : TRUE
        s7  == CHOOSE n \in {updLsJavaHome(s, l, EXT_REDHAT,
                                 CONFIG_KEY_JDT_LS_JAVA_HOME) : s \in {s6}} : TRUE
        s8  == CHOOSE n \in {updLsJavaHome(s, l, EXT_SPRING,
                                 CONFIG_KEY_SPRING_LS_JAVA_HOME) : s \in {s7}} : TRUE
        s9  == CHOOSE n \in {updOptionJavaHome(s, l, EXT_APEX,
                                 CONFIG_KEY_APEX_JAVA_HOME,
                                 findByVersion(l, javaConfig.prevLtsVer)) :
                             s \in {s8}} : TRUE
        s10 == CHOOSE n \in {updOptionJavaHome(s, l, EXT_RSP,
                                 CONFIG_KEY_RSP_JAVA_HOME,
                                 findByVersion(l, javaConfig.stableLtsVer)) :
                             s \in {s9}} : TRUE
        s11 == CHOOSE n \in {updPlantUml(s, l) : s \in {s10}} : TRUE
    \* _updateGradleJavaHome is the one place that sets javaConfig.needsReload
    IN  SynthResult(l, s11, "gradle", s6.writes # st.writes)

\* the Gradle block awaits fixPath(originPath) when the key is set
synthGradle(st, l) ==
    LET stable == findByVersion(l, javaConfig.stableLtsVer)
        latest == findByVersion(l, javaConfig.latestLtsVer)
        gradleJavaRuntime == IF latest # 0 THEN latest ELSE stable
    IN  IF /\ gradleJavaRuntime # 0
           /\ EXT_GRADLE \in extensions
           /\ Truthy(get(st.cfg, CONFIG_KEY_GRADLE_JAVA_HOME))
        THEN SynthResult(l, st, "update-203", FALSE)
        ELSE synthGradleResumes(st, l)

\* the Maven block from its await on
synthMavenResumes(st, l) ==
    CHOOSE n \in {synthGradle(s, l) : s \in {updMavenCustomEnv(st, l)}} : TRUE

\* the Maven block awaits isValidHome(originPath) on Windows, fixPath(originPath)
\* elsewhere, when the custom environment has a JAVA_HOME
synthMaven(st, l) ==
    LET stable == findByVersion(l, javaConfig.stableLtsVer)
        latest == findByVersion(l, javaConfig.latestLtsVer)
        mavenJavaRuntime == IF latest # 0 THEN latest ELSE stable
        customEnvOld == st.cfg[CONFIG_KEY_MAVEN_CUSTOM_ENV]
        k == FindEnvVar(customEnvOld, "JAVA_HOME")
        originPath == IF k = 0 THEN Undef ELSE customEnvOld[k].value
    IN  IF Truthy(originPath) /\ (os = "windows" \/ mavenJavaRuntime # 0)
        THEN SynthResult(l, st, "update-156", FALSE)
        ELSE synthMavenResumes(st, l)

\* the terminal block from its await on: fixPath has resolved, or it has
\* thrown and updateJavaRuntimes rejects with the writes before it issued and
\* none after
synthTerminalResumes(st, l) ==
    IF terminalEnvThrows(st, l)
    THEN SynthResult(l, st, "done", FALSE)
    ELSE CHOOSE n \in {synthMaven(s, l) : s \in {updTerminalEnv(st, l)}} : TRUE

\* the terminal block awaits fixPath(terminalEnv.JAVA_HOME) on Windows
synthTerminal(st, l) ==
    LET stable == findByVersion(l, javaConfig.stableLtsVer)
        latest == findByVersion(l, javaConfig.latestLtsVer)
        terminalDefaultRuntime == IF latest # 0 THEN latest ELSE stable
    IN  IF terminalDefaultRuntime # 0 /\ os = "windows"
        THEN SynthResult(l, st, "update-135", FALSE)
        ELSE synthMaven(st, l)

\* the Terminal Profiles block from the awaits of its Clean loop on (nothing
\* the loop reads changes between its awaits)
synthProfilesResumes(st, l) ==
    CHOOSE n \in {synthTerminal(s, l) : s \in {updProfiles(st, l)}} : TRUE

\* the Clean loop awaits isValidHome(javaHome) for a profile that has a
\* JAVA_HOME and no runtime of its name
synthProfiles(st, l) ==
    LET profilesOld == getDefinition(st.cfg, CONFIG_KEY_TERMINAL_PROFILES)
    IN  IF \E k \in DOMAIN profilesOld :
              FindByName(l, k) = 0 /\ Truthy(profilesOld[k].env.JAVA_HOME)
        THEN SynthResult(l, st, "update-97", FALSE)
        ELSE synthProfilesResumes(st, l)

\* updateJavaRuntimes(javaConfig, runtimes, runtimesOld) from its call to its
\* first await, or to its end when it reaches none
updateJavaRuntimes(st, list, old) ==
    LET s1 == updDeprecatedJavaHome(st)
        r  == updRuntimes(s1, markDefault(list), old)
    IN  CHOOSE n \in {synthProfiles(s.st, s.list) : s \in {r}} : TRUE

\* updateJavaRuntimes goes on from the await it was suspended at
updateJavaRuntimesResumes(at, st, l) ==
    IF at = "update-97" THEN synthProfilesResumes(st, l)
    ELSE IF at = "update-135" THEN synthTerminalResumes(st, l)
    ELSE IF at = "update-156" THEN synthMavenResumes(st, l)
    ELSE synthGradleResumes(st, l)

\* what a stretch of updateJavaRuntimes leaves: none of its calls of update
\* is awaited, and a rejection ends the activation
SynthStretch(r) ==
    /\ runtimes' = r.runtimes
    /\ writes' = r.st.writes
    /\ pending' = pending \o r.st.issued
    /\ deferred' = deferred \cup r.st.deferred
    /\ needsReload' = (needsReload \/ r.needsReload)
    /\ pc' = r.pc

\* updateJavaRuntimes is called
UpdateJavaRuntimes ==
    /\ pc = "update"
    /\ \E r \in {updateJavaRuntimes(Store(cfg, writes), runtimes, runtimesOld)} :
           SynthStretch(r)
    /\ detectedLatestMap' = <<>>
    /\ UNCHANGED <<call, unhandled, cfg, env, toolEnv, deleted, acq, notified, runtimesOld,
                   found, run>>

\* the promise updateJavaRuntimes awaits has settled
UpdateJavaRuntimesResumes ==
    /\ pc \in SynthPcs \ {"update"}
    /\ \E r \in {updateJavaRuntimesResumes(pc, Store(cfg, writes), runtimes)} :
           SynthStretch(r)
    /\ UNCHANGED <<call, unhandled, cfg, env, toolEnv, deleted, acq, notified, runtimesOld,
                   found, detectedLatestMap, run>>

\* the step in which the Terminal Profiles block runs to its end
ProfilesSet ==
    /\ pc \in {"update", "update-97"}
    /\ pc' \notin {"update", "update-97"}

\* a step of updateJavaRuntimes, and the step in which it ends: it returns
\* or it rejects
SynthRuns == pc \in SynthPcs /\ pc' # pc
SynthEnds == pc \in SynthPcs /\ pc' \notin SynthPcs

\* _updateLsJavaHome or _updateOptionJavaHome goes on after its await of
\* fixPath: it calls update, or it rejects
FixPathResolves ==
    /\ \E d \in deferred :
         /\ deferred' = deferred \ {d}
         /\ IF d.value = TypeError
            THEN /\ unhandled' = unhandled \cup {d.section}
                 /\ UNCHANGED <<writes, pending>>
            ELSE /\ writes' = Append(writes, d.section)
                 /\ pending' = Append(pending, d)
                 /\ UNCHANGED unhandled
    /\ UNCHANGED <<call, cfg, env, toolEnv, runtimes, runtimesOld, found, detectedLatestMap,
                   deleted, acq, notified, needsReload, pc, run>>

----------------------------------------------------------------------------
(* download/gradle.ts and download/maven.ts *)

GRADLE == "gradle"
MAVEN == "maven"
Tools == {GRADLE, MAVEN}

\* the JDK majors the JDK Bundle revision may download, as tools
JdkTool(majorVersion) == "jdk" \o ToString(majorVersion)
JdkTools == {JdkTool(v) : v \in {8, 11, 17, 21}}
AllTools == Tools \cup JdkTools

NoAcq == [t \in AllTools |-> "none"]

\* path.join(getGlobalStoragePath(), tool, 'latest')
toolHomeDir(tool) == Join(Join(GlobalStoragePath, tool), "latest")

\* getExePath(homeDir): path.join(homeDir, 'bin', 'gradle' | 'mvn')
getExePath(tool, homeDir) == Join(Join(homeDir, "bin"), IF tool = GRADLE THEN "gradle" ELSE "mvn")

\* isValidHome(homeDir): fs.existsSync(getExePath(homeDir))
isValidToolHome(files, tool, homeDir) == getExePath(tool, homeDir) \in files

toolConfigKey(tool) == IF tool = GRADLE THEN CONFIG_KEY_GRADLE_HOME ELSE CONFIG_KEY_MAVEN_EXE_PATH

\* the value the setting gets for an install at homeDir: the home (Gradle),
\* the executable (Maven)
toolSetting(tool, homeDir) == IF tool = GRADLE THEN homeDir ELSE getExePath(tool, homeDir)

\* dir is p or a directory above p
IsAbove(dir, p) ==
    /\ Len(dir) <= Len(p)
    /\ StartsWith(p, dir)
    /\ (Len(dir) = Len(p) \/ dir = Root \/ p[Len(dir) + 1] = SEP)

\* fs.existsSync(p) on the disk of the build tools: an executable, a
\* directory above one, or a directory a failed extraction left
existsPath(files, p) ==
    \/ \E f \in files : IsAbove(p, f)
    \/ \E d \in partial : IsAbove(p, d)

\* the validity check of the configured value: isValidHome(gradleHomeOld),
\* fs.existsSync(mavenExePathOld)
isValidSetting(files, tool, value) ==
    IF tool = GRADLE THEN isValidToolHome(files, tool, value)
    ELSE existsPath(files, value)

\* what the network and the archive do in one acquisition
\* (extractFails: nothing usable is left; extractPartial: the extraction fails
\* after the executable was written)
NetOutcomes == {"ok", "descriptorFails", "transferFails", "extractFails", "extractPartial"}

AcqResult(value, threw, files, broken, marker, how) ==
    [value |-> value, threw |-> threw, files |-> files, broken |-> broken,
     marker |-> marker, how |-> how]

\* downloader.extract from 'await decompress' on, then the isValidHome check
\* and the write of the version file: the value downloadProc returns, the
\* files and the marker afterwards
decompress(tool, outcome, files, broken) ==
    LET homeDir == toolHomeDir(tool)
    IN  IF outcome = "extractFails"
        THEN AcqResult(Undef, FALSE, files, broken, "", "extract-failed")
        ELSE IF outcome = "extractPartial"
        THEN AcqResult(toolSetting(tool, homeDir), FALSE,
                       files \cup {getExePath(tool, homeDir)}, broken \cup {homeDir},
                       remote[tool], "extract-partial")
        ELSE AcqResult(toolSetting(tool, homeDir), FALSE,
                       files \cup {getExePath(tool, homeDir)}, broken,
                       remote[tool], "installed")

\* downloadProc without the look at the PATH
downloadProc_NoPath(tool, old, outcome) ==
    LET homeDir == toolHomeDir(tool)
        invalidOld == Truthy(old) /\ ~isValidSetting(exes, tool, old)
        new1 == IF invalidOld THEN Undef ELSE old
        new2 == IF ~Truthy(new1) /\ isValidToolHome(exes, tool, homeDir)
                THEN toolSetting(tool, homeDir) ELSE new1
        wiped == exes \ {getExePath(tool, homeDir)}
        cleared == partial \ {homeDir}
    IN  IF Truthy(old) /\ ~invalidOld /\ isUserInstalled(old)
        THEN AcqResult(old, FALSE, exes, partial, markers[tool], "user-installed")
        ELSE IF outcome = "descriptorFails"
        THEN AcqResult(Undef, TRUE, exes, partial, markers[tool], "descriptor-failed")
        ELSE IF remote[tool] = markers[tool] /\ isValidToolHome(exes, tool, homeDir)
        THEN AcqResult(new2, FALSE, exes, partial, markers[tool], "no-updates")
        \* maven.ts hands downloader.execute its options as the one argument:
        \* opt is undefined and 'opt.removeLeadingPath' throws
        ELSE IF tool = MAVEN
        THEN AcqResult(Undef, TRUE, exes, partial, markers[tool], "execute-failed")
        ELSE IF outcome = "transferFails"
        THEN AcqResult(Undef, TRUE, exes, partial, markers[tool], "transfer-failed")
        \* downloader.extract: rmSyncQuietly(extractDestDir), then decompress
        ELSE decompress(tool, outcome, wiped, cleared)

\* downloadProc(progress, old) under a network outcome: the value returned
\* (or threw), the files and the marker afterwards
downloadProc(tool, old, outcome) ==
    LET homeDir == toolHomeDir(tool)
        invalidOld == Truthy(old) /\ ~isValidSetting(exes, tool, old)
        new1 == IF invalidOld THEN Undef ELSE old
        new2 == IF ~Truthy(new1) /\ isValidToolHome(exes, tool, homeDir)
                THEN toolSetting(tool, homeDir) ELSE new1
        wiped == exes \ {getExePath(tool, homeDir)}
        cleared == partial \ {homeDir}
    IN  IF Truthy(old) /\ ~invalidOld /\ isUserInstalled(old)
        THEN AcqResult(old, FALSE, exes, partial, markers[tool], "user-installed")
        ELSE IF ~Truthy(new1) /\ tool \in onPath
        THEN AcqResult(new1, FALSE, exes, partial, markers[tool], "on-path")
        ELSE IF outcome = "descriptorFails"
        THEN AcqResult(Undef, TRUE, exes, partial, markers[tool], "descriptor-failed")
        ELSE IF remote[tool] = markers[tool] /\ isValidToolHome(exes, tool, homeDir)
        THEN AcqResult(new2, FALSE, exes, partial, markers[tool], "no-updates")
        \* maven.ts hands downloader.execute its options as the one argument:
        \* opt is undefined and 'opt.removeLeadingPath' throws
        ELSE IF tool = MAVEN
        THEN AcqResult(Undef, TRUE, exes, partial, markers[tool], "execute-failed")
        ELSE IF outcome = "transferFails"
        THEN AcqResult(Undef, TRUE, exes, partial, markers[tool], "transfer-failed")
        \* downloader.extract: rmSyncQuietly(extractDestDir), then decompress
        ELSE decompress(tool, outcome, wiped, cleared)

\* userSettings.get of the revision gradle.ts and maven.ts import:
\* getConfiguration().get(section), a null in the settings included
getConfigured(c, section) == c[section]

\* the outcomes downloadProc reaches through downloader.extract
Extracting == {"extract-failed", "extract-partial", "installed"}

\* download(progress) once downloadProc has returned or thrown:
\* if (old !== new) await userSettings.update(KEY, new)
download(tool, st, r) ==
    updateIf(~r.threw /\ getConfigured(st.cfg, toolConfigKey(tool)) # r.value,
             st, toolConfigKey(tool), r.value)

\* the end of downloadProc in a step of download: the update is issued and
\* awaited, or there is none
DownloadReturns(tool, r, at, next) ==
    LET st == download(tool, Store(cfg, writes), r)
    IN  /\ writes' = st.writes
        /\ pending' = pending \o st.issued
        /\ acq' = [acq EXCEPT ![tool] = r.how]
        /\ pc' = IF st.issued # <<>> THEN at \o "-update" ELSE next

\* download(progress) up to the first await with the disk changed: either
\* downloadProc ends without an extraction, or extract has removed the
\* install directory and awaits decompress
DownloadStart(tool, at, next) ==
    /\ pc = at
    /\ \E r \in {downloadProc(tool, getConfigured(cfg, toolConfigKey(tool)), net[tool])} :
         IF r.how \in Extracting
         THEN /\ exes' = exes \ {getExePath(tool, toolHomeDir(tool))}
              /\ partial' = partial \ {toolHomeDir(tool)}
              /\ markers' = [markers EXCEPT ![tool] = ""]
              /\ acq' = [acq EXCEPT ![tool] = "extracting"]
              /\ pc' = at \o "-extract"
              /\ UNCHANGED <<writes, pending>>
         ELSE /\ DownloadReturns(tool, r, at, next)
              /\ UNCHANGED <<exes, partial, markers>>
    /\ UNCHANGED <<call, deferred, unhandled, cfg, env, onPath, remote, net, deleted, runtimes,
                   runtimesOld, found, detectedLatestMap, notified, needsReload, run>>

\* decompress has settled: downloadProc runs to its end
DownloadExtract(tool, at, next) ==
    /\ pc = at \o "-extract"
    /\ \E r \in {decompress(tool, net[tool], exes, partial)} :
         /\ exes' = r.files
         /\ partial' = r.broken
         /\ markers' = [markers EXCEPT ![tool] = r.marker]
         /\ DownloadReturns(tool, r, at, next)
    /\ UNCHANGED <<call, deferred, unhandled, cfg, env, onPath, remote, net, deleted, runtimes,
                   runtimesOld, found, detectedLatestMap, notified, needsReload, run>>

\* the update download awaits has settled
DownloadUpdated(tool, at, next) ==
    /\ pc = at \o "-update"
    /\ \A i \in 1..Len(pending) : pending[i].section # toolConfigKey(tool)
    /\ pc' = next
    /\ UNCHANGED <<call, deferred, unhandled, pending, writes, cfg, env, toolEnv, deleted,
                   runtimes, runtimesOld, found, detectedLatestMap, acq, notified,
                   needsReload, run>>

Download(tool, at, next) ==
    \/ DownloadStart(tool, at, next)
    \/ DownloadExtract(tool, at, next)
    \/ DownloadUpdated(tool, at, next)

GradleDownload == Download(GRADLE, "gradle", "maven")

\* Maven never gets to downloader.extract
MavenDownload ==
    \/ DownloadStart(MAVEN, "maven", "done")
    \/ DownloadUpdated(MAVEN, "maven", "done")

----------------------------------------------------------------------------
(* extension.ts (the JDK Bundle revision): activate, scanJdk, downloadJdk, *)
(* updateConfiguration                                                     *)

AVAILABLE_LTS_VERSIONS == <<8, 11, 17>>
JDT_LTS_VERSION == AVAILABLE_LTS_VERSIONS[Len(AVAILABLE_LTS_VERSIONS)]
INIT_DEFAULT_LTS_VERSION == JDT_LTS_VERSION

\* jdkbundle.runtime.isVSCodeStorage(path, context)
isVSCodeStorage(javaHome) == StartsWith(javaHome, GlobalStoragePath)

\* path.join(userDir, String(majorVersion)), and the home inside it
jdkDir(majorVersion) == Join(GlobalStoragePath, ToString(majorVersion))
javaHomeOf(majorVersion) ==
    IF os = "mac" THEN Join(jdkDir(majorVersion), "Home") ELSE jdkDir(majorVersion)

\* the JDK a successful download installs
StoredJdk(majorVersion) == Jdk(javaHomeOf(majorVersion), majorVersion, Ver(majorVersion, 0, 9))

\* fs.existsSync(p): a JDK home, a directory above it, its bin, or what a
\* failed extraction left
existsSync(p) ==
    /\ p # Undef
    /\ \/ \E j \in jdks : IsAbove(p, j.homedir) \/ p = Join(j.homedir, "bin")
       \/ \E d \in partial : IsAbove(p, d) \/ p = Join(d, "Home")

\* Remove configuration where directory does not exist
RECURSIVE scanJdkExisting(_)
scanJdkExisting(list) ==
    IF list = <<>> THEN <<>>
    ELSE IF existsSync(Head(list).path)
         THEN <<Head(list)>> \o scanJdkExisting(Tail(list))
         ELSE scanJdkExisting(Tail(list))

\* Get Supported Runtime Names from Red Hat Extension
redhatRuntimeNames ==
    IF availableNames = <<>>
    THEN [i \in 1..Len(AVAILABLE_LTS_VERSIONS) |-> nameOf(AVAILABLE_LTS_VERSIONS[i])]
    ELSE availableNames

downloadVersions ==
    LET latestVersion == IF availableNames = <<>> THEN NaN
                         ELSE versionOf(availableNames[Len(availableNames)])
    IN  SeqToSet(AVAILABLE_LTS_VERSIONS)
        \cup (IF latestVersion \in {NaN, 0} THEN {} ELSE {latestVersion})

\* the loop over scannedJavas: latestMajorMap
RECURSIVE scanJdkLatest(_, _)
scanJdkLatest(map, javas) ==
    IF javas = <<>> THEN map
    ELSE LET scanned == Head(javas)
             k == MapIndex(map, scanned.majorVersion)
         IN  IF nameOf(scanned.majorVersion) \notin SeqToSet(redhatRuntimeNames)
             THEN scanJdkLatest(map, Tail(javas))
             ELSE IF k = 0
             THEN scanJdkLatest(Append(map, scanned), Tail(javas))
             ELSE IF isNewLeft(scanned.fullVersion, map[k].fullVersion)
             THEN scanJdkLatest([map EXCEPT ![k] = scanned], Tail(javas))
             ELSE scanJdkLatest(map, Tail(javas))

\* Set Runtimes Configuration
RECURSIVE scanJdkSetRuntimes(_, _)
scanJdkSetRuntimes(list, map) ==
    IF map = <<>> THEN list
    ELSE LET info == Head(map)
             k == FindByName(list, nameOf(info.majorVersion))
         IN  IF k # 0
             THEN IF ~isVSCodeStorage(list[k].path)
                  THEN scanJdkSetRuntimes([list EXCEPT ![k].path = info.homePath], Tail(map))
                  ELSE scanJdkSetRuntimes(list, Tail(map))
             ELSE scanJdkSetRuntimes(
                      Append(list, Runtime(nameOf(info.majorVersion), info.homePath, FALSE)),
                      Tail(map))

\* scanJdk(context, runtimes, downloadVersions)
scanJdk(list, javas) ==
    scanJdkSetRuntimes(scanJdkExisting(list), scanJdkLatest(<<>>, javas))

\* updateConfiguration(context, runtimes, runtimesOld)
updJdtJavaHome(st, list) ==
    LET k == FindByName(list, nameOf(JDT_LTS_VERSION))
    IN  updateIf(k # 0 /\ st.cfg[CONFIG_KEY_JDT_LS_JAVA_HOME] # PathOf(list, k),
                 st, CONFIG_KEY_JDT_LS_JAVA_HOME, PathOf(list, k))

updDefault(st, list, old) ==
    LET k == FindByName(list, nameOf(INIT_DEFAULT_LTS_VERSION))
        isNoneDefault == findDefault(list) = 0
        marked == IF isNoneDefault /\ k # 0 THEN [list EXCEPT ![k].default = TRUE] ELSE list
    IN  IF isNoneDefault \/ list # old
        THEN [list |-> SortByName(marked),
              st |-> update(st, CONFIG_KEY_RUNTIMES, SortByName(marked))]
        ELSE [list |-> list, st |-> st]

\* Project Maven Java Home (process.env.JAVA_HOME is not set)
updMavenJavaHome(st, list) ==
    LET k == FindByName(list, nameOf(INIT_DEFAULT_LTS_VERSION))
        customEnv == st.cfg[CONFIG_KEY_MAVEN_CUSTOM_ENV]
        m == FindEnvVar(customEnv, "JAVA_HOME")
        value == EnvVar("JAVA_HOME", PathOf(list, k))
    IN  IF k = 0 THEN st
        ELSE IF m # 0 /\ existsSync(customEnv[m].value) THEN st
        ELSE IF m # 0
        THEN update(st, CONFIG_KEY_MAVEN_CUSTOM_ENV, [customEnv EXCEPT ![m] = value])
        ELSE update(st, CONFIG_KEY_MAVEN_CUSTOM_ENV, Append(customEnv, value))

updJavaDotHome(st) ==
    updateIf(Truthy(st.cfg[CONFIG_KEY_DEPRECATED_JAVA_HOME]),
             st, CONFIG_KEY_DEPRECATED_JAVA_HOME, Undef)

updateConfiguration(st, list, old) ==
    LET s1 == updJdtJavaHome(st, list)
        r  == updDefault(s1, list, old)
        s3 == updMavenJavaHome(r.st, r.list)
    IN  [runtimes |-> r.list, st |-> updJavaDotHome(s3)]

----------------------------------------------------------------------------
(* The run: scan, updateJavaRuntimes, the Gradle and Maven acquisitions;   *)
(* then VS Code is started again, with or without a JDK uninstalled        *)


\* settings.json with nothing set
EmptySettings ==
    [k \in {CONFIG_KEY_DEPRECATED_JAVA_HOME, CONFIG_KEY_GRADLE_JAVA_HOME,
            CONFIG_KEY_JDT_LS_JAVA_HOME, CONFIG_KEY_SPRING_LS_JAVA_HOME,
            CONFIG_KEY_APEX_JAVA_HOME, CONFIG_KEY_RSP_JAVA_HOME,
            CONFIG_KEY_PLANTUML_JAVA, CONFIG_KEY_GRADLE_HOME,
            CONFIG_KEY_MAVEN_EXE_PATH} |-> Undef]
    @@ (CONFIG_KEY_RUNTIMES :> <<>>)
    @@ (CONFIG_KEY_TERMINAL_PROFILES :> NoProfiles)
    @@ (CONFIG_KEY_TERMINAL_ENV :> NoEnv)
    @@ (CONFIG_KEY_MAVEN_CUSTOM_ENV :> <<>>)

\* the runtime entries a persisted list may hold
GonePath == Path(<<"opt", "gone">>)

InitEntries ==
    {Runtime(nameOf(17), p, FALSE) :
        p \in {Jdk17a.homedir, Join(Jdk17a.homedir, "bin"), Jdk17s.homedir, GonePath}}
    \cup {Runtime(nameOf(17), p, TRUE) : p \in {Jdk17a.homedir, GonePath}}
    \cup {Runtime(nameOf(21), p, FALSE) :
        p \in {Jdk21.homedir, Parent(Parent(Jdk21.homedir))}}
    \cup {Runtime(nameOf(21), Jdk21.homedir, TRUE),
          Runtime(nameOf(22), Jdk21.homedir, FALSE)}

InitLists ==
    {l \in UNION {[1..n -> InitEntries] : n \in 0..MaxEntries} :
        /\ \A i, k \in 1..Len(l) : i # k => l[i].name # l[k].name
        /\ Cardinality({i \in 1..Len(l) : l[i].default}) <= 1}

\* the names redhat.java declares
RedhatNames == <<nameOf(8), nameOf(11), nameOf(17), nameOf(21)>>

LtsConfig == [stableLtsVer |-> 17, latestLtsVer |-> 21, prevLtsVer |-> 17,
              embeddedJreVer |-> 0]

InitRun ==
    /\ runtimes = <<>>
    /\ runtimesOld = <<>>
    /\ found = {}
    /\ detectedLatestMap = <<>>
    /\ writes = <<>>
    /\ deleted = {}
    /\ acq = NoAcq
    /\ notified = {}
    /\ needsReload = FALSE
    /\ pending = <<>>
    /\ deferred = {}
    /\ unhandled = {}
    /\ call = NoCall
    /\ pc = "scan"
    /\ run = 1

InitTools ==
    /\ exes = {}
    /\ partial = {}
    /\ onPath = {}
    /\ markers = [t \in AllTools |-> ""]
    /\ remote = [t \in AllTools |-> "2"]
    /\ net = [t \in AllTools |-> "ok"]

\* the machines: every set of installed JDKs and every persisted list on
\* Linux and macOS with redhat.java installed, and the plain cases on
\* Windows and without redhat.java, with a JDK and an entry of a version
\* redhat.java does not name
InitMachine ==
    \/ /\ os \in {"mac", "linux"}
       /\ jdks \in SUBSET JdkCatalog
       /\ availableNames = RedhatNames
       /\ \E list \in InitLists :
            cfg = [EmptySettings EXCEPT ![CONFIG_KEY_RUNTIMES] = list]
    \/ /\ os \in {"windows", "mac", "linux"}
       /\ jdks \in {{}, {Jdk17a, Jdk21}, {Jdk17a, Jdk21, Jdk22}}
       /\ availableNames \in {<<>>, RedhatNames}
       /\ \E list \in {<<>>, <<Runtime(nameOf(17), Jdk17a.homedir, FALSE)>>,
                        <<Runtime(nameOf(22), Jdk21.homedir, FALSE)>>},
             javaHome \in {Undef, Jdk17a.homedir} :
            cfg = [EmptySettings EXCEPT ![CONFIG_KEY_RUNTIMES] = list,
                                        ![CONFIG_KEY_DEPRECATED_JAVA_HOME] = javaHome]

Init ==
    /\ InitMachine
    /\ extensions = (IF availableNames = <<>> THEN {} ELSE {EXT_REDHAT}) \cup {EXT_GRADLE}
    /\ javaConfig = LtsConfig
    /\ failing = {}
    /\ InitTools
    /\ InitRun

\* VS Code is started again: nothing has changed
Restart ==
    /\ pc = "done"
    /\ pending = <<>>
    /\ deferred = {}
    /\ run < MaxRuns
    /\ run' = run + 1
    /\ pc' = "scan"
    /\ runtimes' = <<>>
    /\ runtimesOld' = <<>>
    /\ writes' = <<>>
    /\ deleted' = {}
    /\ acq' = NoAcq
    /\ notified' = {}
    /\ needsReload' = FALSE
    /\ found' = {}
    /\ unhandled' = {}
    /\ UNCHANGED <<call, deferred, pending, env, toolEnv, cfg, detectedLatestMap>>

\* a JDK that a runtime entry points at is uninstalled, then VS Code is
\* started again
Uninstall ==
    /\ pc = "done"
    /\ pending = <<>>
    /\ deferred = {}
    /\ run < MaxRuns
    /\ \E j \in jdks :
         /\ \E i \in 1..Len(cfg[CONFIG_KEY_RUNTIMES]) :
              cfg[CONFIG_KEY_RUNTIMES][i].path = j.homedir
         /\ jdks' = jdks \ {j}
         /\ deleted' = {j.homedir}
    /\ run' = run + 1
    /\ pc' = "scan"
    /\ runtimes' = <<>>
    /\ runtimesOld' = <<>>
    /\ writes' = <<>>
    /\ acq' = NoAcq
    /\ notified' = {}
    /\ needsReload' = FALSE
    /\ found' = {}
    /\ unhandled' = {}
    /\ UNCHANGED <<call, deferred, pending, os, availableNames, extensions, javaConfig,
                   failing, toolEnv, cfg, detectedLatestMap>>

Next ==
    \/ ScanFirstLoop
    \/ UpdateSettles
    \/ ScanDetection
    \/ ScanAutoDownloaded
    \/ ScanSetRuntimes
    \/ UpdateJavaRuntimes
    \/ UpdateJavaRuntimesResumes
    \/ FixPathResolves
    \/ GradleDownload
    \/ MavenDownload
    \/ Restart
    \/ Uninstall

Spec == Init /\ [][Next]_vars

----------------------------------------------------------------------------
(* The run of the JDK Bundle revision: scanJdk and updateConfiguration,   *)
(* the downloadJdk tasks in any order, then updateConfiguration again      *)

\* shared name for every task
runtimeNameOf_Shared(majorVersion) == nameOf(JDT_LTS_VERSION)

\* const runtimeName = jdkbundle.runtime.nameOf(majorVersion)
runtimeNameOf(majorVersion) == nameOf(majorVersion)

\* where a downloadJdk task is at an await, with what its runtimes.find
\* returned: at the version descriptor, at the transfer, at decompress
AtDescriptor == {"matched", "unmatched"}
AtTransfer == {"matched-transfer", "unmatched-transfer"}
AtDecompress == {"matched-extract", "unmatched-extract"}
Reading == AtDescriptor \cup AtTransfer \cup AtDecompress
Matched == {"matched", "matched-transfer", "matched-extract"}

\* a downloadJdk task not started or at an await
Unsettled == {"none"} \cup Reading

\* the ways downloadJdk ends with an exception
Threw == {"descriptor-failed", "transfer-failed", "extract-failed"}

\* downloadJdk up to its first await: runtimes.find, and the return on a
\* user installation
downloadJdkFind(list, majorVersion) ==
    LET k == FindByName(list, runtimeNameOf(majorVersion))
    IN  IF k # 0 /\ ~isVSCodeStorage(list[k].path) THEN "user-installed"
        ELSE IF k # 0 THEN "matched" ELSE "unmatched"

\* jdkutils.findRuntimes as scanJdk calls it: the JDKs it comes across, in
\* any order; no result when it rejects
findRuntimes ==
    IF "jdk-utils" \in failing THEN {}
    ELSE {[i \in 1..Len(s) |-> Detected(s[i].major, s[i].java_version, s[i].homedir)] :
             s \in Orderings(strategyHits("jdk-utils"))}

\* the loop over downloadVersions: every downloadJdk called, each running to
\* its first await
downloadJdkCalls(list) ==
    [t \in AllTools |->
        IF \E v \in downloadVersions : t = JdkTool(v)
        THEN downloadJdkFind(list, CHOOSE v \in downloadVersions : t = JdkTool(v))
        ELSE acq[t]]

\* what showErrorMessage of the catch of the Scan JDK block reports
SCAN_FAILED == "JDK scan failed"

\* activate up to await Promise.all: the Scan JDK block, and the loop that
\* calls downloadJdk for every version.  When findRuntimes rejects, scanJdk
\* has removed the entries of the directories that do not exist, the catch
\* reports it and updateConfiguration is not called
ScanJdk ==
    /\ pc = "scanJdk"
    /\ \/ \E javas \in findRuntimes :
            \E r \in {updateConfiguration(Store(cfg, writes),
                                          scanJdk(cfg[CONFIG_KEY_RUNTIMES], javas),
                                          cfg[CONFIG_KEY_RUNTIMES])} :
                /\ runtimes' = r.runtimes
                /\ runtimesOld' = r.runtimes
                /\ pending' = pending \o r.st.issued
                /\ writes' = r.st.writes
                /\ found' = SeqToSet(javas)
                /\ acq' = downloadJdkCalls(r.runtimes)
                /\ UNCHANGED notified
       \/ /\ findRuntimes = {}
          /\ \E list \in {scanJdkExisting(cfg[CONFIG_KEY_RUNTIMES])} :
                /\ runtimes' = list
                /\ runtimesOld' = list
                /\ acq' = downloadJdkCalls(list)
          /\ found' = {}
          /\ notified' = notified \cup {SCAN_FAILED}
          /\ UNCHANGED <<pending, writes>>
    /\ pc' = "downloadJdk"
    /\ UNCHANGED <<call, deferred, unhandled, cfg, env, toolEnv, detectedLatestMap, deleted,
                   needsReload, run>>

JdkResult(list, homes, broken, marker, how) ==
    [runtimes |-> list, jdks |-> homes, partial |-> broken, marker |-> marker, how |-> how]

\* Set Runtimes Configuration without the look at matchedRuntime
setJdkRuntime_Push(list, majorVersion, matched) ==
    Append(list, Runtime(runtimeNameOf(majorVersion), javaHomeOf(majorVersion), FALSE))

\* Set Runtimes Configuration, at the end of downloadJdk: matchedRuntime is
\* the object the find returned, wherever the list has it now
setJdkRuntime(list, majorVersion, matched) ==
    LET k == FindByName(list, runtimeNameOf(majorVersion))
    IN  IF ~matched
        THEN Append(list, Runtime(runtimeNameOf(majorVersion), javaHomeOf(majorVersion), FALSE))
        ELSE IF k # 0 THEN [list EXCEPT ![k].path = javaHomeOf(majorVersion)]
        ELSE list

\* downloadJdk from the await of the version descriptor to the await of the
\* transfer: Get Download URL throws, or Check Version File returns, or the
\* download starts
downloadJdkCheck(list, majorVersion, outcome, at) ==
    LET tool == JdkTool(majorVersion)
    IN  IF outcome = "descriptorFails"
        THEN JdkResult(list, jdks, partial, markers[tool], "descriptor-failed")
        ELSE IF markers[tool] # "" /\ markers[tool] = remote[tool]
        THEN JdkResult(IF at \in Matched THEN list
                       ELSE Append(list, Runtime(runtimeNameOf(majorVersion),
                                                 javaHomeOf(majorVersion), FALSE)),
                       jdks, partial, markers[tool], "no-updates")
        ELSE JdkResult(list, jdks, partial, markers[tool],
                       IF at \in Matched THEN "matched-transfer" ELSE "unmatched-transfer")

\* downloadJdk from the awaits of the transfer to the await of decompress:
\* the transfer throws, or rmSync removes the install directory
downloadJdkTransfer(list, majorVersion, outcome, at) ==
    LET tool == JdkTool(majorVersion)
    IN  IF outcome = "transferFails"
        THEN JdkResult(list, jdks, partial, markers[tool], "transfer-failed")
        ELSE JdkResult(list, {j \in jdks : ~IsAbove(jdkDir(majorVersion), j.homedir)},
                       partial \ {jdkDir(majorVersion)}, "",
                       IF at \in Matched THEN "matched-extract" ELSE "unmatched-extract")

\* downloadJdk from the await of decompress to its end: a failure of
\* decompress is logged, writeFileSync throws when no directory was made, and
\* Set Runtimes Configuration follows
downloadJdkSet(list, majorVersion, outcome, at) ==
    LET tool == JdkTool(majorVersion)
    IN  IF outcome = "extractFails"
        THEN JdkResult(list, jdks, partial, markers[tool], "extract-failed")
        ELSE IF outcome = "extractPartial"
        THEN JdkResult(setJdkRuntime(list, majorVersion, at \in Matched), jdks,
                       partial \cup {jdkDir(majorVersion)}, remote[tool], "extract-partial")
        ELSE JdkResult(setJdkRuntime(list, majorVersion, at \in Matched),
                       jdks \cup {StoredJdk(majorVersion)}, partial, remote[tool],
                       "installed")

\* the promise a task awaits settles and the task goes on; while a rejection
\* waits for the catch of activate, which is the next to run, no task does
TaskResumes(tool, r) ==
    /\ pc \in {"downloadJdk", "doneLegacy"}
    /\ pc = "downloadJdk" => \A t \in JdkTools : acq[t] \notin Threw
    /\ runtimes' = r.runtimes
    /\ jdks' = r.jdks
    /\ partial' = r.partial
    /\ markers' = [markers EXCEPT ![tool] = r.marker]
    /\ acq' = [acq EXCEPT ![tool] = r.how]
    /\ UNCHANGED <<call, deferred, unhandled, pending, os, availableNames, extensions,
                   javaConfig, failing, cfg, runtimesOld, found, detectedLatestMap, writes,
                   exes, onPath, remote, net, deleted, notified, needsReload, pc, run>>

\* a task has the version descriptor, or the request failed
DownloadJdkCheck ==
    \E majorVersion \in downloadVersions :
        /\ acq[JdkTool(majorVersion)] \in AtDescriptor
        /\ TaskResumes(JdkTool(majorVersion),
                       downloadJdkCheck(runtimes, majorVersion, net[JdkTool(majorVersion)],
                                        acq[JdkTool(majorVersion)]))

\* a task has the archive, or the transfer failed
DownloadJdkTransfer ==
    \E majorVersion \in downloadVersions :
        /\ acq[JdkTool(majorVersion)] \in AtTransfer
        /\ TaskResumes(JdkTool(majorVersion),
                       downloadJdkTransfer(runtimes, majorVersion,
                                           net[JdkTool(majorVersion)],
                                           acq[JdkTool(majorVersion)]))

\* decompress has settled
DownloadJdkSet ==
    \E majorVersion \in downloadVersions :
        /\ acq[JdkTool(majorVersion)] \in AtDecompress
        /\ TaskResumes(JdkTool(majorVersion),
                       downloadJdkSet(runtimes, majorVersion, net[JdkTool(majorVersion)],
                                      acq[JdkTool(majorVersion)]))

\* activate: the second updateConfiguration without await Promise.all
FinishDownloads_NoAwait ==
    /\ pc = "downloadJdk"
    /\ LET threw == {t \in JdkTools : acq[t] \in Threw}
       IN  IF threw # {}
           THEN /\ notified' = notified \cup threw
                /\ UNCHANGED <<runtimes, pending, writes>>
           ELSE /\ \E r \in {updateConfiguration(Store(cfg, writes), runtimes,
                                                 runtimesOld)} :
                     /\ runtimes' = r.runtimes
                     /\ pending' = pending \o r.st.issued
                     /\ writes' = r.st.writes
                /\ UNCHANGED notified
    /\ pc' = "doneLegacy"
    /\ UNCHANGED <<call, deferred, unhandled, cfg, env, toolEnv, runtimesOld, found,
                   detectedLatestMap, deleted, acq, needsReload, run>>

\* activate after await Promise.all.  Promise.all rejects with the first
\* rejection of a task: the catch reports it, with the other tasks still at
\* their awaits, and there is no second updateConfiguration.  It resolves
\* when every task has, and updateConfiguration runs
FinishDownloads ==
    /\ pc = "downloadJdk"
    /\ LET threw == {t \in JdkTools : acq[t] \in Threw}
       IN  IF threw # {}
           THEN /\ notified' = notified \cup threw
                /\ UNCHANGED <<runtimes, pending, writes>>
           ELSE /\ \A majorVersion \in downloadVersions :
                     acq[JdkTool(majorVersion)] \notin Unsettled
                /\ \E r \in {updateConfiguration(Store(cfg, writes), runtimes,
                                                 runtimesOld)} :
                     /\ runtimes' = r.runtimes
                     /\ pending' = pending \o r.st.issued
                     /\ writes' = r.st.writes
                /\ UNCHANGED notified
    /\ pc' = "doneLegacy"
    /\ UNCHANGED <<call, deferred, unhandled, cfg, env, toolEnv, runtimesOld, found,
                   detectedLatestMap, deleted, acq, needsReload, run>>

\* VS Code is started again, once the tasks still at their awaits have ended
RestartLegacy ==
    /\ pc = "doneLegacy"
    /\ pending = <<>>
    /\ \A majorVersion \in downloadVersions : acq[JdkTool(majorVersion)] \notin Unsettled
    /\ run < MaxRuns
    /\ run' = run + 1
    /\ pc' = "scanJdk"
    /\ runtimes' = <<>>
    /\ runtimesOld' = <<>>
    /\ writes' = <<>>
    /\ found' = {}
    /\ acq' = NoAcq
    /\ notified' = {}
    /\ UNCHANGED <<call, deferred, unhandled, pending, env, toolEnv, cfg, detectedLatestMap, deleted, needsReload>>

----------------------------------------------------------------------------
(* Properties of the run *)

\* the settings once the writes in flight and the writes put off have
\* settled: what the run leaves in settings.json
RECURSIVE ApplyAll(_, _)
ApplyAll(c, ws) ==
    IF ws = {} THEN c
    ELSE LET w == CHOOSE x \in ws : TRUE
         IN  ApplyAll([c EXCEPT ![w.section] = w.value], ws \ {w})

Settled == ApplyAll(Apply(cfg, pending), {d \in deferred : d.value # TypeError})

Persisted == Settled[CONFIG_KEY_RUNTIMES]
HasEntry(list, name, path) == \E i \in 1..Len(list) : list[i].name = name /\ list[i].path = path
DefaultEntries(list) == {list[i] : i \in {k \in 1..Len(list) : list[k].default}}
WritesOf(log, section) == Cardinality({i \in 1..Len(log) : log[i] = section})
IsSortedByName(list) == \A i \in 1..Len(list) - 1 : ~NameLess(list[i + 1].name, list[i].name)

\* C1: a second run over an unchanged machine (same files, environment,
\* extensions, remote descriptors) leaves the runtime list as the first run
\* left it and calls neither update nor remove on any key.
C1_SecondRunIsSilent ==
    (pc = "done" /\ run >= 2 /\ deleted = {})
        => (writes = <<>> /\ Persisted = runtimesOld)

\* C2: a persisted entry whose directory was deleted since the previous run
\* is, with that name and that path, in neither the list scan produces nor
\* the list the run persists.
C2_DeletedEntryAbsent ==
    \A i \in 1..Len(runtimesOld) :
        (pc # "scan" /\ runtimesOld[i].path \in deleted)
            => /\ ~HasEntry(runtimes, runtimesOld[i].name, runtimesOld[i].path)
               /\ pc = "done" => ~HasEntry(Persisted, runtimesOld[i].name, runtimesOld[i].path)

C2_Witness ==
    /\ pc = "done"
    /\ \E i \in 1..Len(runtimesOld) :
         /\ runtimesOld[i].path \in deleted
         /\ \E k \in 1..Len(Persisted) :
              /\ Persisted[k].name = runtimesOld[i].name
              /\ Persisted[k].path # runtimesOld[i].path

\* C3: after scan, the detection kept for a major is newest among the
\* detections of that major: against every other one, isNewLeft(kept, other)
\* or the same full version, in whatever order findAll returned them.
C3_RetainedIsNewest ==
    pc = "update" =>
        \A k \in 1..Len(detectedLatestMap) : \A c \in found :
            c.majorVersion = detectedLatestMap[k].majorVersion
                => \/ isNewLeft(detectedLatestMap[k].fullVersion, c.fullVersion)
                   \/ detectedLatestMap[k].fullVersion = c.fullVersion

\* the paths fixPath is asked about: every catalogued home, up to three
\* levels below it and two above it, and a directory that does not exist
PathUniverse ==
    UNION {{j.homedir, Join(j.homedir, "bin"), Join(Join(j.homedir, "bin"), "java"),
            Join(Join(Join(j.homedir, "bin"), "x"), "y"),
            Parent(j.homedir), Parent(Parent(j.homedir))} : j \in JdkCatalog}
    \cup {GonePath, Root}

BoundedSet(p) ==
    <<p, Parent(p), Parent(Parent(p))>>
    \o (IF os = "mac" THEN <<Join(Join(p, "Contents"), "Home"), Join(p, "Home")>> ELSE <<>>)

\* C4: fixPath(p) is the first valid home among p, its parent, its
\* grandparent and, on macOS, p/Contents/Home and p/Home; it is undefined
\* when none of them is valid; and fixPath(H/bin) = H for a valid home H.
C4_FixPathBounded ==
    /\ \A p \in PathUniverse :
         LET r == fixPath(p)
             c == BoundedSet(p)
         IN  IF \E i \in 1..Len(c) : isValidHome(c[i])
             THEN \E i \in 1..Len(c) :
                    /\ r = c[i]
                    /\ isValidHome(c[i])
                    /\ \A k \in 1..(i - 1) : ~isValidHome(c[k])
             ELSE r = Undef
    /\ \A j \in jdks : fixPath(Join(j.homedir, "bin")) = j.homedir

C4_Witness ==
    /\ pc = "update"
    /\ os = "mac"
    /\ HasEntry(runtimesOld, nameOf(17), Join(Jdk17a.homedir, "bin"))
    /\ HasEntry(runtimesOld, nameOf(21), Parent(Parent(Jdk21.homedir)))
    /\ HasEntry(Persisted, nameOf(17), Jdk17a.homedir)
    /\ HasEntry(Persisted, nameOf(21), Jdk21.homedir)
    /\ fixPath(Join(Join(Join(Jdk17a.homedir, "bin"), "x"), "y")) = Undef

LatestLtsEntries(list) ==
    {list[i] : i \in {k \in 1..Len(list) : versionOf(list[k].name) = javaConfig.latestLtsVer}}

\* C5 as stated: when updateJavaRuntimes is given a list (not empty) with no
\* default entry, exactly one entry is default afterwards, the latest LTS
\* runtime when it is present; a list with a default keeps that default.
C5_ExactlyOneDefault ==
    [][(Synthesizing /\ runtimes # <<>>) =>
        /\ DefaultEntries(runtimes) = {} =>
             /\ Cardinality(DefaultEntries(runtimes')) = 1
             /\ LatestLtsEntries(runtimes) # {} =>
                  \A e \in DefaultEntries(runtimes') :
                      versionOf(e.name) = javaConfig.latestLtsVer
        /\ DefaultEntries(runtimes) # {} =>
             DefaultEntries(runtimes') = DefaultEntries(runtimes)]_vars

\* C5, amended: given a list with no default entry, updateJavaRuntimes marks
\* the latest LTS runtime, and only it, when the list has one, and marks
\* nothing when it has none; a list with a default keeps that default and
\* gets no other.
C5_DefaultSelection ==
    [][Synthesizing =>
        /\ (DefaultEntries(runtimes) = {} /\ LatestLtsEntries(runtimes) # {}) =>
             DefaultEntries(runtimes') =
                 {[e EXCEPT !.default = TRUE] : e \in LatestLtsEntries(runtimes)}
        /\ (DefaultEntries(runtimes) = {} /\ LatestLtsEntries(runtimes) = {}) =>
             DefaultEntries(runtimes') = {}
        /\ DefaultEntries(runtimes) # {} =>
             DefaultEntries(runtimes') = DefaultEntries(runtimes)
        /\ {[name |-> e.name, path |-> e.path] : e \in SeqToSet(runtimes')}
             = {[name |-> e.name, path |-> e.path] : e \in SeqToSet(runtimes)}]_vars

C5_Witness ==
    /\ pc = "gradle"
    /\ DefaultEntries(runtimesOld) = {}
    /\ Len(runtimes) = 2
    /\ \E e \in DefaultEntries(runtimes) : versionOf(e.name) = javaConfig.latestLtsVer
    /\ Cardinality(DefaultEntries(runtimes)) = 1

Det17a == Detected(Jdk17a.major, Jdk17a.java_version, Jdk17a.homedir)
Det17b == Detected(Jdk17b.major, Jdk17b.java_version, Jdk17b.homedir)
Det21 == Detected(Jdk21.major, Jdk21.java_version, Jdk21.homedir)

\* the persisted list holds one valid, supported, user-installed entry for
\* major 17, and findAll returned that JDK, a newer 17 at another path and
\* a 21
C6_Scenario ==
    /\ Len(runtimesOld) = 1
    /\ runtimesOld[1].name = nameOf(17)
    /\ runtimesOld[1].path = Jdk17a.homedir
    /\ isValidHome(runtimesOld[1].path)
    /\ isUserInstalled(runtimesOld[1].path)
    /\ isSupportedName(nameOf(17)) /\ isSupportedName(nameOf(21))
    /\ found = {Det17a, Det17b, Det21}
    /\ isNewLeft(Det17b.fullVersion, Jdk17a.java_version)

\* C6: in that scenario one pass (scan, then updateJavaRuntimes) ends with
\* the 17 entry at the newer path, a new 21 entry, the list in name order,
\* and exactly one write of java.configuration.runtimes.
C6_RepointAndAppend ==
    (pc = "gradle" /\ C6_Scenario) =>
        /\ Len(runtimes) = 2
        /\ HasEntry(runtimes, nameOf(17), Jdk17b.homedir)
        /\ HasEntry(runtimes, nameOf(21), Jdk21.homedir)
        /\ IsSortedByName(runtimes)
        /\ Persisted = runtimes
        /\ WritesOf(writes, CONFIG_KEY_RUNTIMES) = 1

C6_Witness ==
    /\ pc = "gradle"
    /\ C6_Scenario
    /\ runtimes = <<Runtime(nameOf(17), Jdk17b.homedir, FALSE),
                    Runtime(nameOf(21), Jdk21.homedir, TRUE)>>
    /\ Persisted = runtimes
    /\ WritesOf(writes, CONFIG_KEY_RUNTIMES) = 1

----------------------------------------------------------------------------
(* The same run over settings the user has already filled in *)

AllExtensions == {EXT_REDHAT, EXT_GRADLE, EXT_SPRING, EXT_APEX, EXT_RSP, EXT_PLANTUML}

\* what a terminal profile of settings.json may hold
ProfileContents ==
    {Profile("bash", <<"-l">>, FALSE, Env(h, Undef, Undef, Undef), "terminal") :
        h \in {Undef, Jdk17a.homedir, GonePath}}
    \cup {Profile("fish", <<>>, TRUE, Env(GonePath, Undef, Undef, <<"FOO">>), "")}

ProfileKeys == {"MyShell", nameOf(17)}

InitProfiles == UNION {[keys -> ProfileContents] : keys \in SUBSET ProfileKeys}

\* java.home, java.jdt.ls.java.home, java.import.gradle.java.home
InitHomes ==
    {<<Undef, Undef, Undef>>,
     <<Jdk17a.homedir, Jdk17a.homedir, GonePath>>,
     <<Undef, Join(Jdk21.homedir, "bin"), Jdk21.homedir>>,
     <<JNull, Undef, Undef>>,
     <<Undef, Undef, Join(Jdk17a.homedir, "bin")>>}

InitSynth ==
    /\ os \in {"windows", "mac", "linux"}
    /\ jdks \in {{Jdk21}, {Jdk17a, Jdk21}}
    /\ availableNames = RedhatNames
    /\ extensions \in {{EXT_REDHAT, EXT_GRADLE}, AllExtensions}
    /\ javaConfig \in {LtsConfig, [LtsConfig EXCEPT !.embeddedJreVer = 21]}
    /\ failing = {}
    /\ \E list \in {<<>>, <<Runtime(nameOf(17), Jdk17a.homedir, TRUE)>>},
          profiles \in InitProfiles,
          homes \in InitHomes,
          termEnv \in {NoEnv, Env(GonePath, Undef, Undef, <<"FOO">>)} :
         cfg = [EmptySettings EXCEPT ![CONFIG_KEY_RUNTIMES] = list,
                                     ![CONFIG_KEY_TERMINAL_PROFILES] = profiles,
                                     ![CONFIG_KEY_TERMINAL_ENV] = termEnv,
                                     ![CONFIG_KEY_DEPRECATED_JAVA_HOME] = homes[1],
                                     ![CONFIG_KEY_JDT_LS_JAVA_HOME] = homes[2],
                                     ![CONFIG_KEY_GRADLE_JAVA_HOME] = homes[3]]
    /\ InitTools
    /\ InitRun

SpecSynth == InitSynth /\ [][Next]_vars

IsRuntimeName(key) == versionOf(key) # NaN

\* C7: a terminal profile whose key is not a runtime name (a profile the
\* user added, such as "MyShell") is in the map with the same definition
\* after updateJavaRuntimes, whatever it holds.
C7_UserProfilesKept ==
    [][ProfilesSet =>
        \A key \in DOMAIN cfg[CONFIG_KEY_TERMINAL_PROFILES] :
            ~IsRuntimeName(key) =>
                /\ key \in DOMAIN Settled'[CONFIG_KEY_TERMINAL_PROFILES]
                /\ Settled'[CONFIG_KEY_TERMINAL_PROFILES][key]
                     = cfg[CONFIG_KEY_TERMINAL_PROFILES][key]]_vars

----------------------------------------------------------------------------
(* The acquisitions: Gradle and Maven under every configured value, cache  *)
(* state and network outcome; the JDK downloads of the JDK Bundle revision *)

\* a directory beside the storage root whose name starts with its name
SiblingRoot == GlobalStoragePath \o <<"-old">>

\* where a user may have installed a tool
UserHome(tool) == Path(<<"opt", tool>>)
SiblingHome(tool) == Join(Join(SiblingRoot, tool), "latest")

\* the values the setting of a tool may hold
InitToolValues(tool) ==
    {Undef, JNull, toolSetting(tool, toolHomeDir(tool)), toolSetting(tool, UserHome(tool)),
     toolSetting(tool, GonePath), toolSetting(tool, SiblingHome(tool))}
    \* maven.executable.path naming a directory that exists
    \cup (IF tool = MAVEN THEN {UserHome(tool), Join(UserHome(tool), "bin")} ELSE {})

\* the managed install of a tool: absent, or present with a version file
InitCaches == {<<FALSE, "">>, <<TRUE, "">>, <<TRUE, "1">>, <<TRUE, "2">>}

UserExes ==
    UNION {{getExePath(t, UserHome(t)), getExePath(t, SiblingHome(t))} : t \in Tools}

InitAcqTools ==
    /\ os = "linux"
    /\ jdks = {}
    /\ availableNames = RedhatNames
    /\ partial = {}
    /\ remote = [t \in AllTools |-> "2"]
    /\ \E wide \in Tools : \E value \in InitToolValues(wide), cache \in InitCaches,
          outcome \in NetOutcomes, path \in SUBSET {wide} :
         /\ cfg = [EmptySettings EXCEPT ![toolConfigKey(wide)] = value]
         /\ exes = UserExes
                \cup (IF cache[1] THEN {getExePath(wide, toolHomeDir(wide))} ELSE {})
         /\ markers = [t \in AllTools |-> IF t = wide THEN cache[2] ELSE ""]
         /\ net = [t \in AllTools |-> IF t = wide THEN outcome ELSE "ok"]
         /\ onPath = path
    /\ pc = "scan"

\* a second installation of the version of Jdk17a
Jdk17c == Jdk(Path(<<"opt", "jdk17c">>), 17, Ver(17, 0, 1))

\* a JDK installed beside the storage root
SiblingJdk == Jdk(Join(SiblingRoot, "17"), 17, Ver(17, 0, 1))

\* the state of the storage directory of a major: absent, a valid JDK, or
\* what a failed extraction left; with the version file
InitJdkCaches ==
    {<<"absent", "">>} \cup ({"valid", "partial"} \X {"", "1", "2"})

InitAcqJdks ==
    /\ os \in {"linux", "mac"}
    /\ availableNames = RedhatNames
    /\ exes = {}
    /\ onPath = {}
    /\ remote = [t \in AllTools |-> "2"]
    /\ \E entry \in {Undef, Jdk17a.homedir, javaHomeOf(17), SiblingJdk.homedir},
          cache \in InitJdkCaches, outcome \in NetOutcomes,
          user \in {{}, {Jdk17a}, {Jdk17a, Jdk17c}},
          outcome21 \in {"ok", "transferFails"}, default11 \in BOOLEAN :
         /\ cfg = [EmptySettings EXCEPT ![CONFIG_KEY_RUNTIMES] =
                      <<Runtime(nameOf(11), javaHomeOf(11), default11)>>
                      \o (IF entry = Undef THEN <<>>
                          ELSE <<Runtime(nameOf(17), entry, FALSE)>>)
                      \o <<Runtime(nameOf(8), javaHomeOf(8), FALSE)>>]
         /\ jdks = {StoredJdk(8), StoredJdk(11), SiblingJdk} \cup user
                \cup (IF cache[1] = "valid" THEN {StoredJdk(17)} ELSE {})
         /\ partial = IF cache[1] = "partial" THEN {jdkDir(17)} ELSE {}
         /\ markers = [t \in AllTools |->
                          IF t = JdkTool(17) THEN cache[2]
                          ELSE IF t \in {JdkTool(8), JdkTool(11)} THEN "2" ELSE ""]
         /\ net = [t \in AllTools |->
                      IF t = JdkTool(17) THEN outcome
                      ELSE IF t = JdkTool(21) THEN outcome21 ELSE "ok"]
    /\ pc = "scanJdk"

\* the scan revision on a machine with user-installed JDKs, over a persisted
\* list that may hold a default
InitAcqScan ==
    /\ os = "linux"
    /\ availableNames = RedhatNames
    /\ jdks \in SUBSET {Jdk17a, Jdk17b, Jdk21}
    /\ \E list \in {<<>>,
                     <<Runtime(nameOf(17), Jdk17a.homedir, FALSE)>>,
                     <<Runtime(nameOf(17), Jdk17a.homedir, TRUE)>>,
                     <<Runtime(nameOf(17), Jdk17a.homedir, TRUE),
                       Runtime(nameOf(21), Jdk21.homedir, FALSE)>>} :
         cfg = [EmptySettings EXCEPT ![CONFIG_KEY_RUNTIMES] = list]
    /\ InitTools
    /\ pc = "scan"

InitAcq ==
    /\ InitAcqTools \/ InitAcqJdks \/ InitAcqScan
    /\ extensions = {EXT_REDHAT, EXT_GRADLE}
    /\ javaConfig = LtsConfig
    /\ runtimes = <<>>
    /\ runtimesOld = <<>>
    /\ found = {}
    /\ detectedLatestMap = <<>>
    /\ writes = <<>>
    /\ deleted = {}
    /\ acq = NoAcq
    /\ notified = {}
    /\ needsReload = FALSE
    /\ pending = <<>>
    /\ deferred = {}
    /\ unhandled = {}
    /\ call = NoCall
    /\ failing \in (IF pc = "scanJdk" THEN {{}, {"jdk-utils"}} ELSE {{}})
    /\ run = 1

NextAcq ==
    \/ ScanFirstLoop
    \/ UpdateSettles
    \/ ScanDetection
    \/ ScanAutoDownloaded
    \/ ScanSetRuntimes
    \/ UpdateJavaRuntimes
    \/ UpdateJavaRuntimesResumes
    \/ FixPathResolves
    \/ GradleDownload
    \/ MavenDownload
    \/ Restart
    \/ ScanJdk
    \/ DownloadJdkCheck
    \/ DownloadJdkTransfer
    \/ DownloadJdkSet
    \/ FinishDownloads
    \/ RestartLegacy

SpecAcq == InitAcq /\ [][NextAcq]_vars

----------------------------------------------------------------------------
(* Properties of the acquisitions *)

JdkMajors == {8, 11, 17, 21}

\* an acquisition not started, or at an await
Underway == {"none", "extracting"} \cup Reading

\* the run of the JDK Bundle revision is over: activate has ended and no
\* task is at an await
LegacyOver ==
    /\ pc = "doneLegacy"
    /\ \A v \in downloadVersions : acq[JdkTool(v)] \notin Unsettled

\* the step in which the acquisition of a tool starts
AcqStep(tool) == acq[tool] = "none" /\ acq'[tool] # "none"

\* the step in which the acquisition of a tool comes to its outcome
AcqEnds(tool) == acq[tool] \in Underway /\ acq'[tool] \notin Underway

\* where an acquisition is after its download step was invoked
Downloading == {"extracting", "execute-failed", "transfer-failed", "extract-failed",
                "extract-partial", "installed"} \cup AtTransfer \cup AtDecompress
ExtractionFailed == {"extract-failed", "extract-partial"}

\* the version file records the remote latest version and the install
\* directory validates
Cached(tool) ==
    /\ markers[tool] = remote[tool]
    /\ isValidToolHome(exes, tool, toolHomeDir(tool))

CachedJdk(majorVersion) ==
    /\ markers[JdkTool(majorVersion)] = remote[JdkTool(majorVersion)]
    /\ isValidHome(javaHomeOf(majorVersion))

\* a path that is not the storage root nor below it
OutsideStorage(p) == ~IsAbove(GlobalStoragePath, p)

\* C8: with the version file equal to the remote latest version and a valid
\* install directory, the acquisition does not download or extract, and the
\* tool ends the run configured at the install directory: the setting of
\* Gradle or Maven, the persisted runtime entry of a JDK.
C8_CachedEndsAtInstall ==
    [][/\ \A t \in Tools :
            (AcqStep(t) /\ Cached(t)) =>
                /\ acq'[t] \notin Downloading
                /\ Settled'[toolConfigKey(t)] = toolSetting(t, toolHomeDir(t))
       /\ \A v \in JdkMajors :
            /\ (acq[JdkTool(v)] \in AtDescriptor /\ CachedJdk(v))
                 => acq'[JdkTool(v)] \notin Downloading
            /\ (LegacyOver' /\ acq'[JdkTool(v)] = "no-updates" /\ CachedJdk(v)')
                 => HasEntry(Settled'[CONFIG_KEY_RUNTIMES], nameOf(v), javaHomeOf(v))]_vars

\* C9: an acquisition whose tool has a valid configured value outside the
\* storage root does not download or extract, changes no file and leaves the
\* configured value as it is.
C9_UserInstallKept ==
    [][/\ \A t \in Tools :
            LET old == cfg[toolConfigKey(t)]
            IN  (/\ AcqStep(t)
                 /\ Truthy(old)
                 /\ isValidSetting(exes, t, old)
                 /\ OutsideStorage(old)) =>
                    /\ acq'[t] \notin Downloading
                    /\ exes' = exes
                    /\ Settled'[toolConfigKey(t)] = old
       /\ \A v \in JdkMajors :
            LET k == FindByName(runtimes', nameOf(v))
                n == FindByName(runtimes, nameOf(v))
            IN  /\ (/\ AcqStep(JdkTool(v))
                     /\ k # 0
                     /\ isValidHome(PathOf(runtimes', k))
                     /\ OutsideStorage(PathOf(runtimes', k)))
                      => acq'[JdkTool(v)] = "user-installed"
                /\ (acq[JdkTool(v)] = "user-installed" /\ acq'[JdkTool(v)] = "user-installed")
                      => /\ PathOf(runtimes', k) = PathOf(runtimes, n)
                         /\ {j \in jdks' : IsAbove(jdkDir(v), j.homedir)}
                              = {j \in jdks : IsAbove(jdkDir(v), j.homedir)}]_vars

\* C10: an acquisition whose extraction fails leaves the setting of the tool
\* as it was, and neither the setting nor a persisted runtime entry points
\* into the directory the extraction left behind.
C10_FailedExtractKeepsConfig ==
    [][/\ \A t \in Tools :
            (AcqEnds(t) /\ acq'[t] \in ExtractionFailed) =>
                /\ Settled'[toolConfigKey(t)] = cfg[toolConfigKey(t)]
                /\ \A d \in partial' : ~IsAbove(d, Settled'[toolConfigKey(t)])
       /\ \A v \in JdkMajors :
            (/\ pc = "downloadJdk" /\ pc' = "doneLegacy"
             /\ acq[JdkTool(v)] \in ExtractionFailed) =>
                LET k == FindByName(cfg[CONFIG_KEY_RUNTIMES], nameOf(v))
                    n == FindByName(Settled'[CONFIG_KEY_RUNTIMES], nameOf(v))
                IN  /\ PathOf(Settled'[CONFIG_KEY_RUNTIMES], n) = PathOf(cfg[CONFIG_KEY_RUNTIMES], k)
                    /\ jdkDir(v) \in partial' =>
                         ~IsAbove(jdkDir(v), PathOf(Settled'[CONFIG_KEY_RUNTIMES], n))]_vars

----------------------------------------------------------------------------
(* Properties of the failure domains *)

\* C11: when the run is over every acquisition has run to an outcome of its
\* own, whatever became of the others, and what each successful one produced
\* is in the configuration: the setting of an installed Gradle or Maven, the
\* runtime entry of an installed JDK.
C11_SuccessesWritten ==
    /\ pc = "done" =>
         \A t \in Tools :
             /\ acq[t] # "none"
             /\ acq[t] = "installed" => cfg[toolConfigKey(t)] = toolSetting(t, toolHomeDir(t))
    /\ pc = "doneLegacy" =>
         \A v \in downloadVersions :
             /\ acq[JdkTool(v)] # "none"
             /\ (LegacyOver /\ acq[JdkTool(v)] = "installed") =>
                  HasEntry(Persisted, nameOf(v), javaHomeOf(v))

----------------------------------------------------------------------------
(* The scan over machines whose strategies find JDKs of their own, some    *)
(* of the strategies throwing                                              *)

\* JDKs in the places IntelliJ, Scoop and a Windows distributor install to
JdkIdea17 == Jdk(Path(<<"home", ".jdks", "temurin-17">>), 17, Ver(17, 0, 3))
JdkIdea21 == Jdk(Path(<<"home", ".jdks", "openjdk-21">>), 21, Ver(21, 0, 2))
JdkScoop  == Jdk(Path(<<"home", "scoop", "apps", "temurin17-jdk", "17.0.2">>), 17, Ver(17, 0, 2))
JdkSemeru == Jdk(Path(<<"Program Files", "Semeru", "jdk-21">>), 21, Ver(21, 0, 1))

InitScan ==
    /\ os \in {"windows", "mac", "linux"}
    /\ jdks \in SUBSET {Jdk17a, JdkIdea17, JdkIdea21, JdkScoop, JdkSemeru}
    /\ failing \in SUBSET {"jdk-utils", "Scoop", "IntelliJ", "Pleiades"}
    /\ availableNames = RedhatNames
    /\ extensions = {EXT_REDHAT, EXT_GRADLE}
    /\ javaConfig = LtsConfig
    /\ cfg = EmptySettings
    /\ InitTools
    /\ InitRun

SpecScan == InitScan /\ [][Next]_vars

\* the detections of the strategies that do not throw
SettledHits ==
    UNION {{Detected(j.major, j.java_version, j.homedir) : j \in strategyHits(strategy)} :
              strategy \in ScanStrategies \ failing}

AllHits ==
    UNION {{Detected(j.major, j.java_version, j.homedir) : j \in strategyHits(strategy)} :
              strategy \in ScanStrategies}

\* C12: whichever strategies throw, findAll returns a list (it has a result,
\* the scan goes on), and what it returns holds every detection of the
\* strategies that did not throw and nothing but detections of the strategies.
C12_FailingStrategyIsolated ==
    /\ pc = "scan" => findAll # {}
    /\ pc = "update" => (SettledHits \subseteq found /\ found \subseteq AllHits)

\* IntelliJ threw after pushing one of its two JDKs; the JDK of jdk-utils
\* and the one of Scoop are in the result
C12_Witness ==
    /\ pc = "update"
    /\ os = "windows"
    /\ failing = {"IntelliJ"}
    /\ jdks = {Jdk17a, JdkIdea17, JdkIdea21, JdkScoop}
    /\ Cardinality(found) = 3
    /\ \E d \in found : d.homePath = JdkIdea21.homedir
    /\ \E d \in found : d.homePath = Jdk17a.homedir
    /\ \E d \in found : d.homePath = JdkScoop.homedir

----------------------------------------------------------------------------
(* Properties of the runtime list *)

\* the step calls update on java.configuration.runtimes
WritesRuntimes ==
    WritesOf(writes', CONFIG_KEY_RUNTIMES) > WritesOf(writes, CONFIG_KEY_RUNTIMES)

\* C13: whenever a step writes java.configuration.runtimes, every path of
\* the list written is a valid JDK home (a home with a compiler) at that
\* moment.
C13_WrittenPathsValid ==
    [][WritesRuntimes =>
        \A i \in 1..Len(Settled'[CONFIG_KEY_RUNTIMES]) :
            \E j \in jdks' : j.homedir = Settled'[CONFIG_KEY_RUNTIMES][i].path]_vars

UniqueNames(list) == \A i, k \in 1..Len(list) : i # k => list[i].name # list[k].name

\* C14: through the scan, the reconciliation and the download tasks in any
\* order, and over repeated runs, the list in memory and the persisted list
\* hold at most one entry per name.
C14_OneEntryPerName == UniqueNames(runtimes) /\ UniqueNames(Persisted)

\* the JDK 17 entry was in the list before its download and the JDK 21
\* entry was not; both downloads installed, and the list holds four names
C14_Witness ==
    /\ pc = "doneLegacy"
    /\ HasEntry(runtimesOld, nameOf(17), javaHomeOf(17))
    /\ FindByName(runtimesOld, nameOf(21)) = 0
    /\ acq[JdkTool(17)] = "installed"
    /\ acq[JdkTool(21)] = "installed"
    /\ Len(Persisted) = 4
    /\ UniqueNames(Persisted)

DefaultCount(list) == Cardinality({i \in 1..Len(list) : list[i].default})

\* C15: every runtime list that a step writes (updateJavaRuntimes in the scan
\* revision, updateConfiguration after scanJdk and after the downloads) has
\* at most one entry with default true, in every run.
C15_AtMostOneDefault ==
    [][WritesRuntimes => DefaultCount(Settled'[CONFIG_KEY_RUNTIMES]) <= 1]_vars

\* the scan phase wrote a list with no default, JavaSE-17 being absent, and
\* the download phase wrote it again with the installed JavaSE-17 as the one
\* default
C15_Witness ==
    /\ pc = "doneLegacy"
    /\ DefaultCount(runtimesOld) = 0
    /\ acq[JdkTool(17)] = "installed"
    /\ WritesOf(writes, CONFIG_KEY_RUNTIMES) = 2
    /\ DefaultCount(Persisted) = 1
    /\ \E e \in DefaultEntries(Persisted) : e.name = nameOf(INIT_DEFAULT_LTS_VERSION)

----------------------------------------------------------------------------
(* Properties of the configuration synthesis *)

\* C16: after updateJavaRuntimes every runtime of the list has a terminal
\* profile under its name whose env.JAVA_HOME is its path, and every profile
\* whose key is a runtime name belongs to a runtime of the list.
C16_OneProfilePerRuntime ==
    [][ProfilesSet =>
        LET profiles == Settled'[CONFIG_KEY_TERMINAL_PROFILES]
        IN  /\ \A i \in 1..Len(runtimes') :
                 /\ runtimes'[i].name \in DOMAIN profiles
                 /\ profiles[runtimes'[i].name].env.JAVA_HOME = runtimes'[i].path
            /\ \A key \in DOMAIN profiles :
                 IsRuntimeName(key) => FindByName(runtimes', key) # 0]_vars

\* the stable LTS runtime of the list after the step, 0 if it has none
StableLts == findByVersion(runtimes', javaConfig.stableLtsVer)

\* C17: whenever the designated LTS runtime is in the list when
\* updateJavaRuntimes ends, java.jdt.ls.java.home is the path of that runtime
\* then, whatever the key held before.
C17_LsHomeAlwaysOverwritten ==
    [][(SynthEnds /\ StableLts # 0) =>
        Settled'[CONFIG_KEY_JDT_LS_JAVA_HOME] = runtimes'[StableLts].path]_vars

\* a removal of java.home is issued by the step
RemovesJavaHome ==
    /\ WritesOf(writes', CONFIG_KEY_DEPRECATED_JAVA_HOME)
         > WritesOf(writes, CONFIG_KEY_DEPRECATED_JAVA_HOME)
    /\ Settled'[CONFIG_KEY_DEPRECATED_JAVA_HOME] = Undef

----------------------------------------------------------------------------
(* Properties of the network failures *)

\* the ways an acquisition ends when the descriptor request or the transfer
\* fails
NetworkFailed == {"descriptor-failed", "transfer-failed"}

\* the acquisition of the step was abandoned with the settings and the disk
\* as they were
Abandoned ==
    /\ Settled' = Settled
    /\ exes' = exes /\ jdks' = jdks /\ partial' = partial /\ markers' = markers

\* C19: an acquisition whose version descriptor request or file transfer
\* fails changes no configuration value, no file of the install directory and
\* no version file, and the failure is shown to the user as an error
\* notification.
C19_NetworkFailureShown ==
    [][/\ \A t \in Tools :
            (AcqStep(t) /\ acq'[t] \in NetworkFailed)
                => (Abandoned /\ t \in notified')
       /\ \A v \in JdkMajors :
            /\ (AcqEnds(JdkTool(v)) /\ acq'[JdkTool(v)] \in NetworkFailed) => Abandoned
            /\ (LegacyOver' /\ acq'[JdkTool(v)] \in NetworkFailed)
                 => JdkTool(v) \in notified']_vars

----------------------------------------------------------------------------
(* userSettings.setDefault *)

\* a settings value that is not a path, by its JSON text
Json(text) == <<text>>

EXT_FABRIC8 == "redhat.fabric8-analytics"
EXT_SPELL == "streetsidesoftware.code-spell-checker"
EXT_TRAILING == "shardulm94.trailing-spaces"
EXT_THUNDER == "rangav.vscode-thunder-client"
NoExtension == ""

CONFIG_KEY_FABRIC8_MVN == "redHatDependencyAnalytics.mvn.executable.path"

DefaultSetting(section, value, extensionId, windowsOnly) ==
    [section |-> section, value |-> value, extensionId |-> extensionId,
     windowsOnly |-> windowsOnly]

\* the setIfUndefined calls of setDefault, in the order of the source
DefaultSettings ==
    <<DefaultSetting("editor.codeActionsOnSave",
                     Json("{source.organizeImports: explicit}"), NoExtension, FALSE),
      DefaultSetting("editor.linkedEditing", Json("true"), NoExtension, FALSE),
      DefaultSetting("editor.minimap.enabled", Json("false"), NoExtension, FALSE),
      DefaultSetting("editor.rulers", Json("[80, 100, 120]"), NoExtension, FALSE),
      DefaultSetting("editor.unicodeHighlight.includeComments", Json("true"),
                     NoExtension, FALSE),
      DefaultSetting("emmet.variables", Json("{lang: locale}"), NoExtension, FALSE),
      DefaultSetting("workbench.colorCustomizations", Json("{colors}"),
                     NoExtension, FALSE),
      DefaultSetting("workbench.editor.revealIfOpen", Json("true"), NoExtension, FALSE),
      DefaultSetting("workbench.tree.indent", Json("20"), NoExtension, FALSE),
      DefaultSetting("files.eol", Json("LF"), NoExtension, TRUE),
      DefaultSetting("[bat]", Json("{files.eol: CRLF}"), NoExtension, TRUE),
      DefaultSetting("terminal.integrated.enablePersistentSessions", Json("false"),
                     NoExtension, FALSE),
      DefaultSetting("terminal.integrated.tabs.hideCondition", Json("never"),
                     NoExtension, FALSE),
      DefaultSetting("terminal.integrated.defaultProfile.windows",
                     Json("Command Prompt"), NoExtension, TRUE),
      DefaultSetting("java.configuration.updateBuildConfiguration", Json("automatic"),
                     NoExtension, FALSE),
      DefaultSetting("java.debug.settings.hotCodeReplace", Json("auto"),
                     NoExtension, FALSE),
      DefaultSetting("java.sources.organizeImports.staticStarThreshold", Json("1"),
                     NoExtension, FALSE),
      DefaultSetting("cSpell.diagnosticLevel", Json("Hint"), EXT_SPELL, FALSE),
      DefaultSetting("trailing-spaces.includeEmptyLines", Json("false"),
                     EXT_TRAILING, FALSE),
      DefaultSetting("thunder-client.requestLayout", Json("Top/Bottom"),
                     EXT_THUNDER, FALSE)>>

DefaultKeys == {DefaultSettings[i].section : i \in 1..Len(DefaultSettings)}

\* setIfUndefined writing over a null the user has set
setIfUndefined_Falsy(st, section, value, extensionId) ==
    IF extensionId # NoExtension /\ extensionId \notin extensions THEN st
    ELSE updateIf(~Truthy(getDefinition(st.cfg, section)), st, section, value)

setIfUndefined(st, section, value, extensionId) ==
    IF extensionId # NoExtension /\ extensionId \notin extensions THEN st
    ELSE updateIf(getDefinition(st.cfg, section) = Undef, st, section, value)

\* the calls from the i-th on; those under 'if (OS.isWindows)' on Windows only
RECURSIVE setDefaultsFrom(_, _)
setDefaultsFrom(st, i) ==
    IF i > Len(DefaultSettings) THEN st
    ELSE LET d == DefaultSettings[i]
         IN  setDefaultsFrom(IF d.windowsOnly /\ os # "windows" THEN st
                             ELSE setIfUndefined(st, d.section, d.value, d.extensionId),
                             i + 1)

\* Workaround: Uninstall extension that cause configuration errors
uninstallsFabric8(c, javaHome) ==
    /\ EXT_FABRIC8 \in extensions
    /\ \/ ~isValidHome(javaHome)
       \/ ~Truthy(get(c, CONFIG_KEY_FABRIC8_MVN)) /\ MAVEN \notin onPath

\* setDefault(javaConfig) with process.env.JAVA_HOME = javaHome
setDefault(st, javaHome) ==
    [st |-> setDefaultsFrom(st, 1),
     uninstalled |-> IF uninstallsFabric8(st.cfg, javaHome) THEN {EXT_FABRIC8} ELSE {},
     needsReload |-> uninstallsFabric8(st.cfg, javaHome)]

\* what process.env.JAVA_HOME may hold
ProcessJavaHomes == {Undef, GonePath, Jdk17a.homedir}

SetDefault ==
    /\ pc = "setDefault"
    /\ \E javaHome \in ProcessJavaHomes :
         LET r == setDefault(Store(cfg, writes), javaHome)
         IN  /\ pending' = pending \o r.st.issued
             /\ writes' = r.st.writes
             /\ extensions' = extensions \ r.uninstalled
             /\ needsReload' = (needsReload \/ r.needsReload)
    /\ pc' = "defaultsDone"
    /\ UNCHANGED <<call, deferred, unhandled, cfg, os, jdks, availableNames, javaConfig, failing,
                   runtimes, runtimesOld, found, detectedLatestMap, toolEnv, deleted, acq,
                   notified, run>>

\* VS Code is started again with the settings the run left
RestartDefaults ==
    /\ pc = "defaultsDone"
    /\ pending = <<>>
    /\ run < MaxRuns
    /\ run' = run + 1
    /\ writes' = <<>>
    /\ needsReload' = FALSE
    /\ pc' = "setDefault"
    /\ UNCHANGED <<call, deferred, unhandled, pending, env, cfg, runtimes, runtimesOld, found, detectedLatestMap, toolEnv,
                   deleted, acq, notified>>

\* the keys of setDefault a user is taken to have set, and to what
UserKeys == {"editor.linkedEditing", "files.eol", "cSpell.diagnosticLevel",
             "thunder-client.requestLayout"}
UserValues == {Undef, JNull, Json("user")}

InitDefaults ==
    /\ os \in {"windows", "mac", "linux"}
    /\ jdks = {Jdk17a}
    /\ availableNames = RedhatNames
    /\ extensions \in {{EXT_REDHAT} \cup optional :
                         optional \in SUBSET {EXT_FABRIC8, EXT_SPELL, EXT_TRAILING,
                                              EXT_THUNDER}}
    /\ javaConfig = LtsConfig
    /\ failing = {}
    /\ \E user \in [UserKeys -> UserValues],
          mvn \in {Undef, Json("/opt/maven/bin/mvn")} :
         cfg = user @@ (CONFIG_KEY_FABRIC8_MVN :> mvn)
                    @@ [k \in DefaultKeys |-> Undef] @@ EmptySettings
    /\ exes = {}
    /\ partial = {}
    /\ onPath \in {{}, {MAVEN}}
    /\ markers = [t \in AllTools |-> ""]
    /\ remote = [t \in AllTools |-> "2"]
    /\ net = [t \in AllTools |-> "ok"]
    /\ runtimes = <<>>
    /\ runtimesOld = <<>>
    /\ found = {}
    /\ detectedLatestMap = <<>>
    /\ writes = <<>>
    /\ deleted = {}
    /\ acq = NoAcq
    /\ notified = {}
    /\ needsReload = FALSE
    /\ pending = <<>>
    /\ deferred = {}
    /\ unhandled = {}
    /\ call = NoCall
    /\ pc = "setDefault"
    /\ run = 1

NextDefaults ==
    \/ SetDefault
    \/ UpdateSettles
    \/ RestartDefaults

SpecDefaults == InitDefaults /\ [][NextDefaults]_vars

----------------------------------------------------------------------------
(* Properties of the default settings *)

\* the i-th call of setDefault is gated on an extension that is not installed
GatedOff(i) ==
    /\ DefaultSettings[i].extensionId # NoExtension
    /\ DefaultSettings[i].extensionId \notin extensions

\* C20: setDefault writes a key it manages only when the user settings hold
\* no value for it: a key the user has set, to null as well, keeps its value
\* and is not written, and a key gated on an extension that is not installed
\* is not written.
C20_SetDefaultKeepsUserValues ==
    [][pc = "setDefault" =>
        \A i \in 1..Len(DefaultSettings) :
            LET key == DefaultSettings[i].section
            IN  (cfg[key] # Undef \/ GatedOff(i))
                    => /\ Settled'[key] = cfg[key]
                       /\ WritesOf(writes', key) = WritesOf(writes, key)]_vars

\* setDefault has run on Windows without Thunder Client: the end of line the
\* user set and the null the user gave editor.linkedEditing are as they were,
\* thunder-client.requestLayout was not written, and the other defaults were
C20_Witness ==
    /\ pc = "defaultsDone"
    /\ run = 1
    /\ os = "windows"
    /\ cfg["files.eol"] = Json("user")
    /\ cfg["editor.linkedEditing"] = JNull
    /\ EXT_THUNDER \notin extensions
    /\ cfg["thunder-client.requestLayout"] = Undef
    /\ EXT_SPELL \in extensions
    /\ cfg["cSpell.diagnosticLevel"] = Json("Hint")
    /\ cfg["[bat]"] = Json("{files.eol: CRLF}")
    /\ WritesOf(writes, "files.eol") = 0
    /\ WritesOf(writes, "editor.linkedEditing") = 0
    /\ WritesOf(writes, "thunder-client.requestLayout") = 0
    /\ WritesOf(writes, "cSpell.diagnosticLevel") = 1

----------------------------------------------------------------------------
(* Properties of the reconciliation in scan *)

\* the step in which scan (scan, scanJdk) ends, and the list it was given
ScanEnds == (pc \in Detecting /\ pc' = "update") \/ (pc = "scanJdk" /\ pc' # "scanJdk")
ScannedList == IF pc = "scanJdk" THEN cfg[CONFIG_KEY_RUNTIMES] ELSE runtimesOld

\* the full version of the JDK at a valid home
VersionAt(homeDir) == (CHOOSE j \in jdks : j.homedir = homeDir).java_version

\* C21: an entry of a supported name whose path is a valid home outside the
\* storage root is in the list after the scan (scan, scanJdk), and its path
\* is another one only if that is the home of a detected JDK of the major
\* whose full version is strictly newer than the version at the entry's
\* path; with a detection of the same or an older version the path stays.
C21_RepointOnlyWhenNewer ==
    [][ScanEnds =>
        \A i \in 1..Len(ScannedList) :
            LET e == ScannedList[i]
                k == FindByName(runtimes', e.name)
                newer == {d \in found' : /\ nameOf(d.majorVersion) = e.name
                                         /\ isNewLeft(d.fullVersion, VersionAt(e.path))}
            IN  (isSupportedName(e.name) /\ isValidHome(e.path) /\ OutsideStorage(e.path))
                    => (k # 0 /\ (runtimes'[k].path = e.path
                                  \/ runtimes'[k].path \in {d.homePath : d \in newer}))
    ]_vars

\* C22: when redhat.java gives no runtime names, the scan (scan, scanJdk)
\* takes the majors configured for download as the supported ones: every
\* detected JDK of such a major has an entry of its name in the list
\* afterwards.
C22_FallbackToDownloadTargets ==
    [][(ScanEnds /\ availableNames = <<>>) =>
        \A d \in found' :
            d.majorVersion \in downloadVersions
                => FindByName(runtimes', nameOf(d.majorVersion)) # 0]_vars

\* some directory fixPath looks at is a valid home
Fixable(p) == \E q \in SeqToSet(BoundedSet(p)) : isValidHome(q)

\* C23: with a non-empty list of names from redhat.java, the list scan
\* leaves holds only entries of those names: a persisted entry of another
\* name is removed, a detected JDK of another version adds none.  With an
\* empty list of names, an entry whose path can be fixed keeps its place
\* whatever its name.
C23_AllowListFilters ==
    [][(pc \in Detecting /\ pc' = "update") =>
        IF availableNames # <<>>
        THEN \A i \in 1..Len(runtimes') : runtimes'[i].name \in SeqToSet(availableNames)
        ELSE \A i \in 1..Len(runtimesOld) :
                Fixable(runtimesOld[i].path)
                    => FindByName(runtimes', runtimesOld[i].name) # 0]_vars

\* scan over a persisted JavaSE-22 entry and a detected JDK 22, with
\* redhat.java naming the versions up to 21: the entry is gone and none of
\* that name was added, the JDK 21 got its entry
C23_Witness ==
    /\ pc = "update"
    /\ availableNames = RedhatNames
    /\ HasEntry(runtimesOld, nameOf(22), Jdk21.homedir)
    /\ \E d \in found : d.majorVersion = 22
    /\ FindByName(runtimes, nameOf(22)) = 0
    /\ HasEntry(runtimes, nameOf(21), Jdk21.homedir)

----------------------------------------------------------------------------
(* jdkExplorer.scan step by step: the update of its first loop, which it   *)
(* calls without await, and the detection that follows                     *)

NextScanSteps ==
    \/ ScanFirstLoop
    \/ UpdateSettles
    \/ ScanDetection
    \/ ScanAutoDownloaded
    \/ ScanSetRuntimes

SpecScanSteps == Init /\ [][NextScanSteps]_vars

\* C24 as the specification states it: when the first loop of scan removed
\* or fixed an entry, the write of java.configuration.runtimes it issues has
\* settled before scan goes on to the detection.
C24_ImmediateUpdateAwaited ==
    [][(pc = "findAll" /\ pc' # "findAll") => pending = <<>>]_vars

\* C24, amended: when the first loop of scan removed or fixed an entry, the
\* write of java.configuration.runtimes with the list it left is issued
\* before the detection starts, and it is in flight or has settled then;
\* when the loop changed nothing, no write is issued.
C24_ImmediateUpdateIssued ==
    pc = "findAll" =>
        IF runtimes # runtimesOld
        THEN /\ WritesOf(writes, CONFIG_KEY_RUNTIMES) = 1
             /\ \/ pending = <<Write(CONFIG_KEY_RUNTIMES, runtimes)>>
                \/ pending = <<>> /\ cfg[CONFIG_KEY_RUNTIMES] = runtimes
        ELSE /\ WritesOf(writes, CONFIG_KEY_RUNTIMES) = 0
             /\ pending = <<>>
             /\ cfg[CONFIG_KEY_RUNTIMES] = runtimesOld

\* the detection has run and the write of the list without the removed
\* entry has not settled yet
C24_Witness ==
    /\ pc = "update"
    /\ HasEntry(runtimesOld, nameOf(17), GonePath)
    /\ pending # <<>>
    /\ Head(pending).section = CONFIG_KEY_RUNTIMES
    /\ \A i \in 1..Len(Head(pending).value) : Head(pending).value[i].path # GonePath
    /\ HasEntry(cfg[CONFIG_KEY_RUNTIMES], nameOf(17), GonePath)
    /\ found # {}

----------------------------------------------------------------------------
(* Properties of the changed-or-not decision *)

\* the list holds the entries of the other one, in this or another order
SameEntries(list, other) ==
    /\ Len(list) = Len(other)
    /\ SeqToSet(list) = SeqToSet(other)

\* the step in which the runtime list is judged against the list it was
\* read as: updateJavaRuntimes is called, or updateConfiguration runs after
\* scanJdk or after the downloads
JudgesList ==
    \/ Synthesizing
    \/ pc = "scanJdk" /\ pc' # "scanJdk"
    \/ pc = "downloadJdk" /\ pc' = "doneLegacy"

\* C25: a reconciled list that holds the entries of the persisted list it
\* is judged against, in this or another order, causes no write of
\* java.configuration.runtimes.
C25_ReorderingNotWritten ==
    [][(JudgesList /\ SameEntries(runtimes', ScannedList)) => ~WritesRuntimes]_vars

----------------------------------------------------------------------------
(* Properties of the Gradle daemon java home *)

\* what java.import.gradle.java.home holds after updateJavaRuntimes when the
\* key held origin and fallback is the path written for want of a better one
GradleHomeOutcome(origin, fallback) ==
    IF ~Truthy(origin) THEN fallback
    ELSE IF isValidHome(origin) THEN origin
    ELSE IF fixPath(origin) # Undef THEN fixPath(origin)
    ELSE fallback

\* C26: when the list has a default runtime at the end of
\* updateJavaRuntimes, java.import.gradle.java.home has become the default
\* runtime's path if it was unset, is kept if valid, has become the repaired
\* path if fixPath repairs it, and the default runtime's path if fixPath
\* cannot.
C26_GradleHomeFromDefault ==
    [][(SynthEnds /\ EXT_GRADLE \in extensions /\ findDefault(runtimes') # 0)
        => Settled'[CONFIG_KEY_GRADLE_JAVA_HOME]
             = GradleHomeOutcome(cfg[CONFIG_KEY_GRADLE_JAVA_HOME],
                                 PathOf(runtimes', findDefault(runtimes')))]_vars

----------------------------------------------------------------------------
(* Properties of the terminal environment block *)

\* C27: updateJavaRuntimes changes no variable of terminal.integrated.env
\* other than JAVA_HOME and PATH, and issues no write of the key when the
\* merged block equals the block the settings hold.
C27_TerminalEnvMerge ==
    [][SynthRuns =>
        LET old == cfg[CONFIG_KEY_TERMINAL_ENV]
            new == Settled'[CONFIG_KEY_TERMINAL_ENV]
        IN  /\ new.ZDOTDIR = old.ZDOTDIR
            /\ new.EXTRA = old.EXTRA
            /\ new = old => WritesOf(writes', CONFIG_KEY_TERMINAL_ENV)
                               = WritesOf(writes, CONFIG_KEY_TERMINAL_ENV)]_vars

\* on Windows the second run left the block alone: it holds the variable FOO
\* of the user beside the JAVA_HOME and PATH the first run merged in
C27_Witness ==
    /\ pc = "gradle"
    /\ run = 2
    /\ os = "windows"
    /\ cfg[CONFIG_KEY_TERMINAL_ENV]
         = Env(Jdk21.homedir, PathVar(Jdk21.homedir), Undef, <<"FOO">>)
    /\ WritesOf(writes, CONFIG_KEY_TERMINAL_ENV) = 0

----------------------------------------------------------------------------
(* Properties of the managed terminal profiles *)

\* the profiles of the settings that are named after a runtime of the list
ExistingManaged(profiles, list) ==
    {k \in DOMAIN profiles : FindByName(list, k) # 0}

----------------------------------------------------------------------------
(* Properties of the run after a failed extraction *)

\* the directory the acquisition of a tool extracts into
storageDirOf(tool) ==
    IF tool \in Tools THEN toolHomeDir(tool)
    ELSE jdkDir(CHOOSE v \in JdkMajors : JdkTool(v) = tool)

\* C29: an acquisition that finds in its directory what a failed extraction
\* left does not end with "no updates" on the strength of the version file,
\* and a downloadJdk task that finds it adds no runtime entry for it.
C29_FailedExtractionRedone ==
    [][/\ \A t \in AllTools :
            (AcqEnds(t) /\ run > 1 /\ storageDirOf(t) \in partial)
                => acq'[t] # "no-updates"
       /\ \A v \in JdkMajors :
            (AcqEnds(JdkTool(v)) /\ run > 1 /\ jdkDir(v) \in partial
             /\ jdkDir(v) \in partial')
                => (FindByName(runtimes, nameOf(v)) = 0
                        => FindByName(runtimes', nameOf(v)) = 0)]_vars

----------------------------------------------------------------------------
(* Properties of the detection of auto-downloaded JDKs *)

\* the detections of findAll for a major
FoundOf(majorVer) == {d \in found : d.majorVersion = majorVer}

\* C30: after scan, the map of detections holds the storage directory of a
\* major only if findAll detected no JDK of that major, and for a major
\* findAll detected a JDK of, it holds one of those detections.
C30_UserInstalledPreferred ==
    pc = "update" =>
        \A i \in 1..Len(detectedLatestMap) :
            LET d == detectedLatestMap[i]
            IN  IF FoundOf(d.majorVersion) = {}
                THEN d = Detected(d.majorVersion, <<>>, StorageJavaDir(d.majorVersion))
                ELSE d \in FoundOf(d.majorVersion)

\* JDK 17 is installed by the user and in the storage directory, the stored
\* one being the newer: scan retained the user-installed one
C30_Witness ==
    /\ pc = "update"
    /\ Jdk17s \in jdks
    /\ Jdk17a \in jdks
    /\ FoundOf(17) = {Detected(17, Jdk17a.java_version, Jdk17a.homedir)}
    /\ \E i \in 1..Len(detectedLatestMap) :
          detectedLatestMap[i] = Detected(17, Jdk17a.java_version, Jdk17a.homedir)

----------------------------------------------------------------------------
(* The runs over machines with the optional language servers and values   *)
(* of their java home keys                                                *)

Jdk11 == Jdk(Path(<<"opt", "jdk11">>), 11, Ver(11, 0, 2))

\* what an optional java home key may hold: nothing, a valid home of an old
\* and of a new JDK, a path fixPath repairs, a path that is gone, and the
\* storage directory of the auto-downloaded JDK 17
OptionHomes ==
    {Undef, Jdk11.homedir, Jdk21.homedir, Join(Jdk17a.homedir, "bin"), GonePath,
     StorageJavaDir(17)}

InitOption ==
    /\ os \in {"windows", "linux"}
    /\ jdks \in {{Jdk11, Jdk21}, {Jdk11, Jdk17a, Jdk21}, {Jdk11, Jdk17a, Jdk17s, Jdk21}}
    /\ availableNames = RedhatNames
    /\ extensions \in {{EXT_REDHAT}, {EXT_REDHAT, EXT_APEX, EXT_RSP}}
    /\ javaConfig = LtsConfig
    /\ failing = {}
    /\ \E apex \in OptionHomes, rsp \in OptionHomes :
         cfg = [EmptySettings EXCEPT ![CONFIG_KEY_APEX_JAVA_HOME] = apex,
                                     ![CONFIG_KEY_RSP_JAVA_HOME] = rsp]
    /\ InitTools
    /\ InitRun

SpecOption == InitOption /\ [][Next]_vars

\* the optional extensions, their keys and the version of the runtime each
\* is given
OptionKeys ==
    {<<EXT_APEX, CONFIG_KEY_APEX_JAVA_HOME, javaConfig.prevLtsVer>>,
     <<EXT_RSP, CONFIG_KEY_RSP_JAVA_HOME, javaConfig.stableLtsVer>>}

\* the major version of the JDK at a home, 0 if there is none
MajorAt(homeDir) ==
    IF findByPath(homeDir) = {} THEN 0 ELSE (CHOOSE j \in findByPath(homeDir) : TRUE).major

\* C31: the key of an optional language server is not written when its
\* extension is absent; with the extension and its runtime present at the
\* end of updateJavaRuntimes, a value that is a valid home of a JDK not older
\* than that runtime is kept, and a value that is not valid or is of an
\* older JDK has become the path of the runtime.
C31_OptionHomeByVersion ==
    [][SynthEnds =>
        \A o \in OptionKeys :
            LET origin == cfg[o[2]]
                rt == findByVersion(runtimes', o[3])
            IN  /\ o[1] \notin extensions
                     => WritesOf(writes', o[2]) = WritesOf(writes, o[2])
                /\ (o[1] \in extensions /\ rt # 0 /\ Truthy(origin))
                     => Settled'[o[2]] = IF isValidHome(origin) /\ MajorAt(origin) >= o[3]
                                    THEN origin ELSE PathOf(runtimes', rt)]_vars

----------------------------------------------------------------------------
(* Properties of the second updateConfiguration of activate *)

\* the second updateConfiguration of activate runs in this step
FinalSynthesis ==
    /\ pc = "downloadJdk"
    /\ pc' = "doneLegacy"
    /\ \A v \in downloadVersions : acq[JdkTool(v)] \notin Threw

\* the ways downloadJdk ends having set or pushed the entry of its major
SetsEntry == {"installed", "extract-partial"}

\* C32: when activate runs its second updateConfiguration every downloadJdk
\* task has ended, and the list in memory and the persisted list hold, for
\* every task that set or pushed an entry, the entry of its major at the
\* home it was downloaded to, and every entry the tasks left in the list.
C32_FinalSynthesisAfterDownloads ==
    [][FinalSynthesis =>
        /\ \A v \in downloadVersions : acq[JdkTool(v)] \notin Unsettled
        /\ \A v \in downloadVersions :
             acq[JdkTool(v)] \in SetsEntry =>
                 /\ HasEntry(runtimes', nameOf(v), javaHomeOf(v))
                 /\ HasEntry(Settled'[CONFIG_KEY_RUNTIMES], nameOf(v), javaHomeOf(v))
        /\ \A i \in 1..Len(runtimes) :
             /\ HasEntry(runtimes', runtimes[i].name, runtimes[i].path)
             /\ HasEntry(Settled'[CONFIG_KEY_RUNTIMES], runtimes[i].name,
                         runtimes[i].path)]_vars

\* the list scanJdk left had no JavaSE-17 and no JavaSE-21 entry; all the
\* tasks ended without throwing, those of 17 and 21 installing, and the list
\* written after them holds both entries
C32_Witness ==
    /\ pc = "doneLegacy"
    /\ run = 1
    /\ \A v \in downloadVersions : acq[JdkTool(v)] \notin Threw \cup {"none"}
    /\ FindByName(runtimesOld, nameOf(17)) = 0
    /\ FindByName(runtimesOld, nameOf(21)) = 0
    /\ acq[JdkTool(17)] = "installed"
    /\ acq[JdkTool(21)] = "installed"
    /\ HasEntry(Persisted, nameOf(17), javaHomeOf(17))
    /\ HasEntry(Persisted, nameOf(21), javaHomeOf(21))
    /\ WritesOf(writes, CONFIG_KEY_RUNTIMES) >= 1

----------------------------------------------------------------------------
(* The downloadJdk tasks of the Promise.all on their own: they interleave   *)
(* at their awaits                                                          *)

\* the machines of the tasks: JDK 8 and 11 in the storage directory with
\* their version files, with or without the entry of JDK 8; JDK 17 absent,
\* current or outdated there, with or without its entry and a JDK 17 of the
\* user
InitTasks ==
    /\ os \in {"linux", "mac"}
    /\ availableNames = RedhatNames
    /\ exes = {}
    /\ onPath = {}
    /\ remote = [t \in AllTools |-> "2"]
    /\ \E entry \in {Undef, javaHomeOf(17)}, has8 \in BOOLEAN,
          cache \in {<<"absent", "">>, <<"valid", "1">>, <<"valid", "2">>},
          outcome \in {"ok", "transferFails", "extractPartial"},
          outcome21 \in {"ok", "descriptorFails"}, user \in {{}, {Jdk17a}} :
         /\ cfg = [EmptySettings EXCEPT ![CONFIG_KEY_RUNTIMES] =
                      <<Runtime(nameOf(11), javaHomeOf(11), TRUE)>>
                      \o (IF entry = Undef THEN <<>>
                          ELSE <<Runtime(nameOf(17), entry, FALSE)>>)
                      \o (IF has8 THEN <<Runtime(nameOf(8), javaHomeOf(8), FALSE)>>
                          ELSE <<>>)]
         /\ jdks = {StoredJdk(8), StoredJdk(11)} \cup user
                \cup (IF cache[1] = "valid" THEN {StoredJdk(17)} ELSE {})
         /\ markers = [t \in AllTools |->
                          IF t = JdkTool(17) THEN cache[2]
                          ELSE IF t \in {JdkTool(8), JdkTool(11)} THEN "2" ELSE ""]
         /\ net = [t \in AllTools |->
                      IF t = JdkTool(17) THEN outcome
                      ELSE IF t = JdkTool(21) THEN outcome21 ELSE "ok"]
    /\ partial = {}
    /\ extensions = {EXT_REDHAT, EXT_GRADLE}
    /\ javaConfig = LtsConfig
    /\ runtimes = <<>>
    /\ runtimesOld = <<>>
    /\ found = {}
    /\ detectedLatestMap = <<>>
    /\ writes = <<>>
    /\ deleted = {}
    /\ acq = NoAcq
    /\ notified = {}
    /\ needsReload = FALSE
    /\ pending = <<>>
    /\ deferred = {}
    /\ unhandled = {}
    /\ call = NoCall
    /\ failing \in {{}, {"jdk-utils"}}
    /\ pc = "scanJdk"
    /\ run = 1

NextTasks ==
    \/ ScanJdk
    \/ UpdateSettles
    \/ DownloadJdkCheck
    \/ DownloadJdkTransfer
    \/ DownloadJdkSet
    \/ FinishDownloads
    \/ RestartLegacy

SpecTasks == InitTasks /\ [][NextTasks]_vars

\* the entries of a name in a list
EntriesOf(list, name) == {e \in SeqToSet(list) : e.name = name}

\* C33 as stated: while a downloadJdk task is between its find and the end
\* of its awaits, no step of another task changes the runtime list.
C33_NoInterleaving ==
    [][\A v \in JdkMajors :
          (acq[JdkTool(v)] \in Reading /\ acq'[JdkTool(v)] = acq[JdkTool(v)])
              => runtimes' = runtimes]_vars

\* C33: while a downloadJdk task is between its find and the end of its
\* awaits, the steps of the other tasks, which may change the list, leave
\* the entries of its runtime name as they were, and what its find returned
\* stays true of the list.
C33_OwnEntryUntouched ==
    [][\A v \in JdkMajors :
          (acq[JdkTool(v)] \in Reading /\ acq'[JdkTool(v)] = acq[JdkTool(v)])
              => /\ EntriesOf(runtimes', nameOf(v)) = EntriesOf(runtimes, nameOf(v))
                 /\ (acq[JdkTool(v)] \in Matched) = (FindByName(runtimes', nameOf(v)) # 0)]_vars

\* the task of JDK 17 found no entry and is at its awaits while the task of
\* JDK 21 has pushed its entry
C33_Witness ==
    /\ pc = "downloadJdk"
    /\ acq[JdkTool(17)] = "unmatched"
    /\ acq[JdkTool(21)] = "installed"
    /\ HasEntry(runtimes, nameOf(21), javaHomeOf(21))
    /\ FindByName(runtimesOld, nameOf(21)) = 0
    /\ FindByName(runtimes, nameOf(17)) = 0

----------------------------------------------------------------------------
(* The functions of jdkExplorer and javaExtension called on their own      *)

\* what jdkutils.getRuntime(homeDir, {checkJavac: true}) does: it resolves to
\* a runtime with a compiler, to one without, to undefined, or it rejects
ProbeOutcomes == {"javac", "no-javac", "undefined", "throws"}

\* isValidHome(homeDir) when the probe does as given: "true", "false", or
\* "threw" when the promise rejects
isValidHomeCall(homeDir, probe) ==
    IF ~Truthy(homeDir) THEN "false"
    ELSE IF probe = "throws" THEN "threw"
    ELSE IF probe = "javac" THEN "true"
    ELSE "false"

CallIsValidHome ==
    /\ pc = "call"
    /\ \E homeDir \in {Undef, Jdk17a.homedir, GonePath}, probe \in ProbeOutcomes :
         call' = [NoCall EXCEPT !.fn = "isValidHome", !.left = homeDir, !.probe = probe,
                                !.outcome = isValidHomeCall(homeDir, probe)]
    /\ UNCHANGED <<env, toolEnv, cfg, runtimes, runtimesOld, found, detectedLatestMap,
                   writes, deleted, acq, notified, needsReload, pending, deferred, unhandled,
                   pc, run>>

\* compare(v1, v2, '>') of compare-versions: it throws on a string that is
\* no version
compare(v1, v2) ==
    IF ~(ValidVersion(v1) /\ ValidVersion(v2)) THEN "throws"
    ELSE IF compareSegments(v1, v2, 1) = 1 THEN "true"
    ELSE "false"

\* isNewLeft without the try and catch
isNewLeftCall_NoCatch(leftFullVer, rightFullVer) ==
    LET r == compare(optimize(leftFullVer), optimize(rightFullVer))
    IN  IF r = "throws" THEN "threw" ELSE r

\* isNewLeft(leftFullVer, rightFullVer): "true", "false", or "threw"
isNewLeftCall(leftFullVer, rightFullVer) ==
    LET r == compare(optimize(leftFullVer), optimize(rightFullVer))
    IN  IF r = "throws" THEN "false" ELSE r

\* the version strings isNewLeft is called on: '', '17-ea', '17.0.1',
\* '17.0.2', '21', '1.8.0_352', '1.8.0_362', '1.8.0.362', '1.8.0_' and
\* '17.0.1.2.3'
VersionStrings ==
    {<<>>, <<Num(17), Sym("-ea")>>, Ver(17, 0, 1), Ver(17, 0, 2), <<Num(21)>>,
     <<Num(1), Dot, Num(8), Dot, Num(0), Underscore, Num(352)>>,
     <<Num(1), Dot, Num(8), Dot, Num(0), Underscore, Num(362)>>,
     <<Num(1), Dot, Num(8), Dot, Num(0), Dot, Num(362)>>,
     <<Num(1), Dot, Num(8), Dot, Num(0), Underscore>>,
     <<Num(17), Dot, Num(0), Dot, Num(1), Dot, Num(2), Dot, Num(3)>>}

CallIsNewLeft ==
    /\ pc = "call"
    /\ \E leftFullVer \in VersionStrings, rightFullVer \in VersionStrings :
         call' = [NoCall EXCEPT !.fn = "isNewLeft", !.left = leftFullVer,
                                !.right = rightFullVer,
                                !.outcome = isNewLeftCall(leftFullVer, rightFullVer)]
    /\ UNCHANGED <<env, toolEnv, cfg, runtimes, runtimesOld, found, detectedLatestMap,
                   writes, deleted, acq, notified, needsReload, pending, deferred, unhandled,
                   pc, run>>

\* the largest major version the names are computed for
MaxMajor == 30

\* a string as the sequence of its characters
JAVASE == <<"J", "a", "v", "a", "S", "E", "-">>
J2SE == <<"J", "2", "S", "E", "-">>
LEGACY == <<"1", ".">>
DigitChars == {"0", "1", "2", "3", "4", "5", "6", "7", "8", "9"}

\* '' + n for a number n >= 0
RECURSIVE StringOf(_)
StringOf(n) ==
    IF n < 10 THEN <<ToString(n)>>
    ELSE StringOf(n \div 10) \o <<ToString(n % 10)>>

DropPrefix(text, prefix) == SubSeq(text, Len(prefix) + 1, Len(text))

\* the value of a string of digits
RECURSIVE ValueOf(_)
ValueOf(digits) ==
    IF digits = <<>> THEN 0
    ELSE 10 * ValueOf(SubSeq(digits, 1, Len(digits) - 1))
         + (CHOOSE d \in 0..9 : ToString(d) = digits[Len(digits)])

\* a number that is no integer, as Number('1.5')
Fraction == -2

\* Number(text): '' is 0, digits are their value, digits '.' digits are a
\* fraction, any other text of the model is NaN
NumberOf(text) ==
    IF \A i \in 1..Len(text) : text[i] \in DigitChars THEN ValueOf(text)
    ELSE IF \E k \in 2..(Len(text) - 1) :
              /\ text[k] = "."
              /\ \A i \in (1..Len(text)) \ {k} : text[i] \in DigitChars
         THEN Fraction
    ELSE NaN

\* nameOf, character by character
nameOfText(majorVersion) ==
    IF majorVersion <= 5 THEN J2SE \o LEGACY \o StringOf(majorVersion)
    ELSE IF majorVersion <= 8 THEN JAVASE \o LEGACY \o StringOf(majorVersion)
    ELSE JAVASE \o StringOf(majorVersion)

\* runtimeName.replace(/^J(ava|2)SE-/, '')
versionOfText_NoLegacy(runtimeName) ==
    NumberOf(IF StartsWith(runtimeName, JAVASE) THEN DropPrefix(runtimeName, JAVASE)
             ELSE IF StartsWith(runtimeName, J2SE) THEN DropPrefix(runtimeName, J2SE)
             ELSE runtimeName)

\* versionOf, character by character:
\* Number(runtimeName.replace(/^J(ava|2)SE-(1\.|)/, ''))
versionOfText(runtimeName) ==
    LET family == IF StartsWith(runtimeName, JAVASE) THEN JAVASE
                  ELSE IF StartsWith(runtimeName, J2SE) THEN J2SE
                  ELSE <<>>
        rest == DropPrefix(runtimeName, family)
    IN  IF family = <<>> THEN NumberOf(runtimeName)
        ELSE IF StartsWith(rest, LEGACY) THEN NumberOf(DropPrefix(rest, LEGACY))
        ELSE NumberOf(rest)

\* names that nameOf does not give: 'JavaSE-1.17', 'J2SE-8', 'JavaSE-',
\* 'JavaSE-1.1.8', 'JavaSE-ea', '17' and 'Java-17'
OtherNames ==
    {JAVASE \o LEGACY \o <<"1", "7">>, J2SE \o <<"8">>, JAVASE,
     JAVASE \o LEGACY \o <<"1", ".", "8">>, JAVASE \o <<"e", "a">>, <<"1", "7">>,
     <<"J", "a", "v", "a", "-", "1", "7">>}

CallNameOf ==
    /\ pc = "call"
    /\ \E majorVersion \in 0..MaxMajor :
         call' = [NoCall EXCEPT !.fn = "nameOf", !.majorVersion = majorVersion,
                                !.text = nameOfText(majorVersion)]
    /\ UNCHANGED <<env, toolEnv, cfg, runtimes, runtimesOld, found, detectedLatestMap,
                   writes, deleted, acq, notified, needsReload, pending, deferred, unhandled,
                   pc, run>>

CallVersionOf ==
    /\ pc = "call"
    /\ \E runtimeName \in {nameOfText(v) : v \in 0..MaxMajor} \cup OtherNames :
         call' = [NoCall EXCEPT !.fn = "versionOf", !.text = runtimeName,
                                !.number = versionOfText(runtimeName)]
    /\ UNCHANGED <<env, toolEnv, cfg, runtimes, runtimesOld, found, detectedLatestMap,
                   writes, deleted, acq, notified, needsReload, pending, deferred, unhandled,
                   pc, run>>

CallFixPath ==
    /\ pc = "call"
    /\ \E homeDir \in PathUniverse :
         call' = [NoCall EXCEPT !.fn = "fixPath", !.left = homeDir,
                                !.right = fixPath(homeDir)]
    /\ UNCHANGED <<env, toolEnv, cfg, runtimes, runtimesOld, found, detectedLatestMap,
                   writes, deleted, acq, notified, needsReload, pending, deferred, unhandled,
                   pc, run>>

\*--calls-end--
InitCalls ==
    /\ os \in {"linux", "mac"}
    /\ jdks \in SUBSET {Jdk17a, Jdk21}
    /\ availableNames = RedhatNames
    /\ extensions = {EXT_REDHAT}
    /\ javaConfig = LtsConfig
    /\ failing = {}
    /\ cfg = EmptySettings
    /\ InitTools
    /\ runtimes = <<>>
    /\ runtimesOld = <<>>
    /\ found = {}
    /\ detectedLatestMap = <<>>
    /\ writes = <<>>
    /\ deleted = {}
    /\ acq = NoAcq
    /\ notified = {}
    /\ needsReload = FALSE
    /\ pending = <<>>
    /\ deferred = {}
    /\ unhandled = {}
    /\ call = NoCall
    /\ pc = "call"
    /\ run = 1

NextCalls ==
    CallIsValidHome \/ CallIsNewLeft \/ CallNameOf \/ CallVersionOf \/ CallFixPath

SpecCalls == InitCalls /\ [][NextCalls]_vars

\* C34: isValidHome fails closed: whatever the probe of the directory does,
\* raising an error included, the call answers false instead of raising,
\* and it answers true only when a compiler was found.
C34_IsValidHomeFailsClosed ==
    call.fn = "isValidHome" =>
        /\ call.outcome \in {"true", "false"}
        /\ call.outcome = "true" => call.probe = "javac"

\* C35: isNewLeft never raises: a malformed or empty version string on
\* either side gives false, equal versions give false, and an underscore is
\* compared as a dot, so that 1.8.0_362 is newer than 1.8.0_352.
C35_IsNewLeftNeverRaises ==
    call.fn = "isNewLeft" =>
        /\ call.outcome \in {"true", "false"}
        /\ (~ValidVersion(optimize(call.left)) \/ ~ValidVersion(optimize(call.right)))
              => call.outcome = "false"
        /\ call.left = call.right => call.outcome = "false"
        /\ call.outcome = "true" <=>
              /\ ValidVersion(optimize(call.left))
              /\ ValidVersion(optimize(call.right))
              /\ compareSegments(optimize(call.left), optimize(call.right), 1) = 1
        /\ (/\ call.left = <<Num(1), Dot, Num(8), Dot, Num(0), Underscore, Num(362)>>
            /\ call.right = <<Num(1), Dot, Num(8), Dot, Num(0), Underscore, Num(352)>>)
              => call.outcome = "true"
        /\ (/\ call.left = <<Num(1), Dot, Num(8), Dot, Num(0), Underscore, Num(362)>>
            /\ call.right = <<Num(1), Dot, Num(8), Dot, Num(0), Dot, Num(362)>>)
              => call.outcome = "false"

\* an underscored version was compared with an older one, and a malformed
\* one was compared
C35_Witness ==
    /\ call.fn = "isNewLeft"
    /\ call.left = <<Num(1), Dot, Num(8), Dot, Num(0), Underscore, Num(362)>>
    /\ call.right = <<Num(1), Dot, Num(8), Dot, Num(0), Underscore, Num(352)>>
    /\ call.outcome = "true"

\* C36: the runtime name is reversible: versionOf(nameOf(v)) = v for every
\* major version v; nameOf(v) is J2SE-1.v up to 5, JavaSE-1.v from 6 to 8 and
\* JavaSE-v from 9; and no two major versions have the same name.
C36_NameReversible ==
    /\ call.fn = "versionOf" =>
          \A v \in 0..MaxMajor : call.text = nameOfText(v) => call.number = v
    /\ call.fn = "nameOf" =>
          /\ call.text = (IF call.majorVersion <= 5 THEN J2SE \o LEGACY
                          ELSE IF call.majorVersion <= 8 THEN JAVASE \o LEGACY
                          ELSE JAVASE) \o StringOf(call.majorVersion)
          /\ \A w \in 0..MaxMajor : nameOfText(w) = call.text => w = call.majorVersion

\* versionOf was called on J2SE-1.5, the name of JDK 5, and gave 5
C36_Witness ==
    /\ call.fn = "versionOf"
    /\ call.text = J2SE \o LEGACY \o <<"5">>
    /\ call.number = 5

----------------------------------------------------------------------------
(* The version file and the PATH, in the acquisitions *)

\* the install directory of a tool passes the validity check: the executable
\* exists (Gradle, Maven), the JDK has its compiler
ValidInstall(files, homes, tool) ==
    IF tool \in Tools THEN isValidToolHome(files, tool, toolHomeDir(tool))
    ELSE \E v \in JdkMajors :
           /\ tool = JdkTool(v)
           /\ \E j \in homes : j.homedir = javaHomeOf(v)

\* C37: the version file of a tool is written only after the freshly
\* extracted install directory has passed the validity check: in the step
\* that writes it, the directory is a valid install.
C37_MarkerAfterValidInstall ==
    [][\A tool \in AllTools :
         (AcqEnds(tool) /\ acq'[tool] \in SetsEntry)
           => /\ markers'[tool] = remote[tool]
              /\ ValidInstall(exes', jdks', tool)]_vars

\* C38: whenever fixPath(p) returns a directory d, d is a valid home and
\* fixPath(d) = d; and fixPath(p) = p for every p that is a valid home.
C38_FixPathFixedPoint ==
    call.fn = "fixPath" =>
        /\ call.right # Undef => isValidHome(call.right) /\ fixPath(call.right) = call.right
        /\ isValidHome(call.left) => call.right = call.left

\* on macOS fixPath was called on a bundle directory and returned its
\* Contents/Home
C38_Witness ==
    /\ call.fn = "fixPath"
    /\ os = "mac"
    /\ call.left = Parent(Parent(Jdk21.homedir))
    /\ call.right = Jdk21.homedir

\* the value of the key of a tool is unset, or is set and not valid
UnsetOrInvalid(tool) ==
    LET old == getConfigured(cfg, toolConfigKey(tool))
    IN  ~Truthy(old) \/ ~isValidSetting(exes, tool, old)

\* C39: in the Gradle and Maven acquisitions, when the key of the tool is
\* unset or invalid and the tool is on the PATH, no version descriptor is
\* fetched, nothing is downloaded, and the key is not set to a path: an
\* unset key is not written, an invalid value is removed.
C39_OnPathNothingSet ==
    [][\A tool \in Tools :
         (AcqStep(tool) /\ tool \in onPath /\ UnsetOrInvalid(tool))
           => /\ acq'[tool] = "on-path"
              /\ exes' = exes /\ partial' = partial /\ markers' = markers
              /\ ~Truthy(Settled'[toolConfigKey(tool)])
              /\ \A key \in DOMAIN cfg :
                    key # toolConfigKey(tool) => Settled'[key] = Settled[key]
              /\ IF Truthy(getConfigured(cfg, toolConfigKey(tool)))
                 THEN /\ writes' = Append(writes, toolConfigKey(tool))
                      /\ Settled'[toolConfigKey(tool)] = Undef
                 ELSE /\ writes' = writes
                      /\ Settled'[toolConfigKey(tool)] = cfg[toolConfigKey(tool)]]_vars

\* an acquisition found the tool on the PATH with the descriptor out of
\* reach and a managed install on disk, and removed the invalid value of
\* the key
C39_Witness ==
    \E tool \in Tools :
        /\ acq[tool] = "on-path"
        /\ tool \in onPath
        /\ net[tool] = "descriptorFails"
        /\ cfg[toolConfigKey(tool)] = Undef
        /\ WritesOf(writes, toolConfigKey(tool)) = 1
        /\ isValidToolHome(exes, tool, toolHomeDir(tool))
====
